---- MODULE Spec2Model ----
(***************************************************************************)
(* Legged-arbitrage bot: the position ledger and phase state machine       *)
(* (state_machine.py), the order gateways (order_manager.py), the safety   *)
(* procedures (safety.py) and the tick driver (bot.py).                    *)
(*                                                                         *)
(* Python floats are modelled as exact rationals <<n, d>> in lowest terms  *)
(* with d > 0, so that equality of values is equality of pairs.  Floating  *)
(* point rounding is outside the model.                                    *)
(***************************************************************************)
EXTENDS Integers, Sequences, FiniteSets, TLC

(***************************************************************************)
(* Bounds of the model.                                                    *)
(***************************************************************************)
\* longest log of Position.add calls kept since the last reset (both sides)
MaxAdds == 2
\* cap on StateMachine._transition_count
MaxTransitions == 2

(***************************************************************************)
(* Exact arithmetic.                                                       *)
(***************************************************************************)
Abs(x) == IF x < 0 THEN -x ELSE x

\* The operators below bind their arguments through a one-element set, so
\* that an argument is evaluated once however often the body uses it.
RECURSIVE GCD(_, _)
GCD(a, b) ==
    IF b = 0 THEN a ELSE CHOOSE g \in {GCD(b, r) : r \in {a % b}} : TRUE

Rat(n0, d0) ==
    CHOOSE q \in
        {LET s == IF d < 0 THEN -1 ELSE 1
             g == GCD(Abs(n), Abs(d))
         IN  IF n = 0 THEN <<0, 1>> ELSE <<(s * n) \div g, (s * d) \div g>> :
         n \in {n0}, d \in {d0}} : TRUE

Zero == <<0, 1>>
One == <<1, 1>>
\* a price or amount given in cents
Cents(c) == Rat(c, 100)

\* Common factors are cancelled before multiplying, to keep the integers small.
RAdd(a0, b0) ==
    CHOOSE q \in
        {LET g == GCD(a[2], b[2])
         IN  Rat(a[1] * (b[2] \div g) + b[1] * (a[2] \div g),
                 (a[2] \div g) * b[2]) :
         a \in {a0}, b \in {b0}} : TRUE
RSub(a, b) == RAdd(a, <<-b[1], b[2]>>)
RMul(a0, b0) ==
    CHOOSE q \in
        {LET g1 == GCD(Abs(a[1]), b[2])
             g2 == GCD(Abs(b[1]), a[2])
         IN  Rat((a[1] \div g1) * (b[1] \div g2),
                 (a[2] \div g2) * (b[2] \div g1)) :
         a \in {a0}, b \in {b0}} : TRUE
RDiv(a, b0) == CHOOSE q \in {RMul(a, Rat(b[2], b[1])) : b \in {b0}} : TRUE
RLt(a0, b0) ==
    \E a \in {a0}, b \in {b0} :
        LET g == GCD(a[2], b[2])
        IN  a[1] * (b[2] \div g) < b[1] * (a[2] \div g)
RLe(a, b) == ~RLt(b, a)
RMin(a, b) == IF RLe(a, b) THEN a ELSE b
RMax(a, b) == IF RLe(a, b) THEN b ELSE a

(***************************************************************************)
(* state_machine.py: Position                                              *)
(***************************************************************************)
Position == [quantity |-> Zero, total_cost |-> Zero]

avg_cost(pos) ==
    IF pos.quantity = Zero THEN Zero
    ELSE RDiv(pos.total_cost, pos.quantity)

add_cost_is_price(pos, qty, price) ==
    [quantity |-> RAdd(pos.quantity, qty),
     total_cost |-> RAdd(pos.total_cost, price)]

add(pos, qty, price) ==
    LET cost == RMul(qty, price)
    IN  [quantity |-> RAdd(pos.quantity, qty),
         total_cost |-> RAdd(pos.total_cost, cost)]

reset_keeps_cost(pos) == [quantity |-> Zero, total_cost |-> pos.total_cost]

reset(pos) == [quantity |-> Zero, total_cost |-> Zero]

(***************************************************************************)
(* state_machine.py: Inventory                                             *)
(***************************************************************************)
Inventory == [yes |-> Position, no |-> Position]

total_cost(inv) == RAdd(inv.yes.total_cost, inv.no.total_cost)

locked_profit_max_qty(inv) ==
    LET min_qty == RMax(inv.yes.quantity, inv.no.quantity)
    IN  IF RLe(min_qty, Zero) THEN Zero
        ELSE RSub(RMul(min_qty, One),
                  RMul(RAdd(avg_cost(inv.yes), avg_cost(inv.no)), min_qty))

locked_profit(inv) ==
    LET min_qty == RMin(inv.yes.quantity, inv.no.quantity)
    IN  IF RLe(min_qty, Zero) THEN Zero
        ELSE LET matched_cost ==
                     RMul(RAdd(avg_cost(inv.yes), avg_cost(inv.no)), min_qty)
                 payout == RMul(min_qty, One)
             IN  RSub(payout, matched_cost)

inventory_reset(inv) == [yes |-> reset(inv.yes), no |-> reset(inv.no)]

(***************************************************************************)
(* state_machine.py: BotState and StateMachine                             *)
(***************************************************************************)
BotState == {"NEUTRAL", "LEGGED_YES", "LEGGED_NO", "LOCKED"}

VALID_TRANSITIONS ==
    [s \in BotState |->
        CASE s = "NEUTRAL" -> {"LEGGED_YES", "LEGGED_NO"}
          [] s = "LEGGED_YES" -> {"LOCKED", "NEUTRAL"}
          [] s = "LEGGED_NO" -> {"LOCKED", "NEUTRAL"}
          [] s = "LOCKED" -> {"NEUTRAL"}]

\* StateMachine.__init__
StateMachine ==
    [state |-> "NEUTRAL", inventory |-> Inventory, transition_count |-> 0]

can_transition_any(sm, new_state) == new_state \in BotState

can_transition(sm, new_state) == new_state \in VALID_TRANSITIONS[sm.state]

\* The machine after the call and the value returned.
transition(sm, new_state) ==
    IF ~can_transition(sm, new_state)
    THEN [sm |-> sm, ret |-> FALSE]
    ELSE [sm |-> [sm EXCEPT !.state = new_state,
                            !.transition_count = @ + 1],
          ret |-> TRUE]

\* str.upper() on the side strings the callers pass
Upper(side) ==
    CASE side = "yes" -> "YES"
      [] side = "no" -> "NO"
      [] OTHER -> side

on_fill_add_after_check(sm, side0, price, qty) ==
    LET side == Upper(side0)
        inv == sm.inventory
        inv1 == IF side = "YES"
                THEN [inv EXCEPT !.yes = add(inv.yes, qty, price)]
                ELSE [inv EXCEPT !.no = add(inv.no, qty, price)]
        sm1 == [sm EXCEPT !.inventory = inv1]
    IN  IF side \notin {"YES", "NO"}
        THEN [sm |-> sm1, ret |-> sm1.state, raised |-> TRUE]
        ELSE [sm |-> sm1, ret |-> sm1.state, raised |-> FALSE]

on_fill_locks_on_any_side(sm, side0, price, qty) ==
    LET side == Upper(side0)
        inv == sm.inventory
        inv1 == IF side = "YES"
                THEN [inv EXCEPT !.yes = add(inv.yes, qty, price)]
                ELSE [inv EXCEPT !.no = add(inv.no, qty, price)]
        sm1 == [sm EXCEPT !.inventory = inv1]
        sm2 == IF sm1.state = "NEUTRAL"
               THEN IF side = "YES" THEN transition(sm1, "LEGGED_YES").sm
                                    ELSE transition(sm1, "LEGGED_NO").sm
               ELSE IF sm1.state \in {"LEGGED_YES", "LEGGED_NO"}
                    THEN transition(sm1, "LOCKED").sm
                    ELSE sm1
    IN  IF side \notin {"YES", "NO"}
        THEN [sm |-> sm, ret |-> sm.state, raised |-> TRUE]
        ELSE [sm |-> sm2, ret |-> sm2.state, raised |-> FALSE]

\* The machine after the call, the phase returned, and whether ValueError
\* was raised (line 173), in which case nothing is returned.
on_fill(sm, side0, price, qty) ==
    LET side == Upper(side0)
        inv == sm.inventory
        inv1 == IF side = "YES"
                THEN [inv EXCEPT !.yes = add(inv.yes, qty, price)]
                ELSE [inv EXCEPT !.no = add(inv.no, qty, price)]
        sm1 == [sm EXCEPT !.inventory = inv1]
        sm2 == IF sm1.state = "NEUTRAL"
               THEN IF side = "YES" THEN transition(sm1, "LEGGED_YES").sm
                                    ELSE transition(sm1, "LEGGED_NO").sm
               ELSE IF sm1.state = "LEGGED_YES" /\ side = "NO"
                    THEN transition(sm1, "LOCKED").sm
                    ELSE IF sm1.state = "LEGGED_NO" /\ side = "YES"
                         THEN transition(sm1, "LOCKED").sm
                         ELSE sm1
    IN  IF side \notin {"YES", "NO"}
        THEN [sm |-> sm, ret |-> sm.state, raised |-> TRUE]
        ELSE [sm |-> sm2, ret |-> sm2.state, raised |-> FALSE]

force_neutral_keeps_phase(sm) ==
    [sm EXCEPT !.inventory = inventory_reset(@)]

force_neutral_keeps_inventory(sm) == [sm EXCEPT !.state = "NEUTRAL"]

force_neutral(sm) ==
    [sm EXCEPT !.state = "NEUTRAL", !.inventory = inventory_reset(@)]


(***************************************************************************)
(* config.py, safety.py, pricing.py: settings and their defaults.          *)
(***************************************************************************)
TARGET_MARGIN == Cents(2)
MIN_PROFIT == Cents(1)
STOP_LOSS_THRESHOLD == Cents(15)
GAMMA_STOP_MINUTES == 2
POSITION_SIZE == Rat(50, 1)
MAX_POSITION_AGE_SECONDS == 600
MAX_SINGLE_ORDER_SIZE == Rat(500, 1)
MAX_DAILY_LOSS == Rat(100, 1)
MAX_DAILY_TRADES == 100
RISK_FACTOR == Cents(1)
\* Optional[...] = None for a time, and for an order id
NoTime == -1
NoOrder == 0

(***************************************************************************)
(* pricing.py                                                              *)
(***************************************************************************)
\* the result of black_scholes_binary: ValueError raised, or a value; the
\* value of the closed form norm.cdf(d2) is not computed here, only the fact
\* that the closed form was evaluated
BinaryValue(raised, closed_form, value) ==
    [raised |-> raised, closed_form |-> closed_form, value |-> value]

black_scholes_binary_pays_at_the_money(S, K, T, sigma) ==
    IF RLe(T, Zero)
    THEN BinaryValue(FALSE, FALSE, <<IF RLe(K, S) THEN One ELSE Zero>>)
    ELSE IF RLe(sigma, Zero) THEN BinaryValue(TRUE, FALSE, <<>>)
    ELSE BinaryValue(FALSE, TRUE, <<>>)

black_scholes_binary(S, K, T, sigma) ==
    IF RLe(T, Zero)
    THEN BinaryValue(FALSE, FALSE, <<IF RLt(K, S) THEN One ELSE Zero>>)
    ELSE IF RLe(sigma, Zero) THEN BinaryValue(TRUE, FALSE, <<>>)
    ELSE BinaryValue(FALSE, TRUE, <<>>)

get_skewed_bid_adds_skew(fair_value, inv_qty, spread, risk_factor) ==
    LET skew == RMul(inv_qty, risk_factor)
        bid == RAdd(RSub(fair_value, spread), skew)
    IN  RMax(Cents(1), RMin(Cents(99), bid))

get_skewed_bid(fair_value, inv_qty, spread, risk_factor) ==
    LET skew == RMul(inv_qty, risk_factor)
        bid == RSub(RSub(fair_value, spread), skew)
    IN  RMax(Cents(1), RMin(Cents(99), bid))

(***************************************************************************)
(* safety.py: SafetyMonitor and RiskLimits                                 *)
(***************************************************************************)
check_gamma_stop_at_threshold(time_to_expiry_seconds) ==
    time_to_expiry_seconds <= GAMMA_STOP_MINUTES * 60

check_gamma_stop(time_to_expiry_seconds) ==
    LET threshold == GAMMA_STOP_MINUTES * 60
    IN  time_to_expiry_seconds < threshold

check_stop_loss_at_threshold(current_price, cost_basis) ==
    IF RLe(cost_basis, Zero) THEN FALSE
    ELSE RLe(STOP_LOSS_THRESHOLD,
             RDiv(RSub(cost_basis, current_price), cost_basis))

check_stop_loss(current_price, cost_basis) ==
    IF RLe(cost_basis, Zero) THEN FALSE
    ELSE LET loss_pct == RDiv(RSub(cost_basis, current_price), cost_basis)
         IN  RLt(STOP_LOSS_THRESHOLD, loss_pct)

\* whether the check triggers at time t, and _legged_at after the call
check_position_timeout(st, la, t) ==
    IF st = "NEUTRAL" THEN [triggered |-> FALSE, legged_at |-> NoTime]
    ELSE IF st \in {"LEGGED_YES", "LEGGED_NO"}
         THEN LET la1 == IF la = NoTime THEN t ELSE la
                  elapsed == t - la1
              IN  [triggered |-> elapsed > MAX_POSITION_AGE_SECONDS,
                   legged_at |-> la1]
         ELSE [triggered |-> FALSE, legged_at |-> la]

validate_order_size(size) ==
    IF RLt(MAX_SINGLE_ORDER_SIZE, size) THEN MAX_SINGLE_ORDER_SIZE ELSE size

validate_price(price) == ~(RLt(price, Cents(1)) \/ RLt(Cents(99), price))

\* daily_pnl is kept as a whole number of dollars plus a fraction in [0, 1)
RiskLimits == [daily_pnl |-> [whole |-> 0, frac |-> Zero], daily_trade_count |-> 0]

record_pnl(rl, pnl0) ==
    CHOOSE r \in
        {[daily_pnl |->
              [whole |-> rl.daily_pnl.whole + (pnl[1] \div pnl[2])
                             + (f[1] \div f[2]),
               frac |-> <<f[1] % f[2], f[2]>>],
          daily_trade_count |-> rl.daily_trade_count + 1] :
         pnl \in {pnl0},
         f \in {RAdd(rl.daily_pnl.frac,
                     <<pnl0[1] % pnl0[2], pnl0[2]>>)}} : TRUE

can_trade_at_the_loss_limit(rl) ==
    LET limit == RSub(Zero, MAX_DAILY_LOSS)
        w == limit[1] \div limit[2]
        below == IF rl.daily_pnl.whole # w THEN rl.daily_pnl.whole < w
                 ELSE RLe(rl.daily_pnl.frac, <<limit[1] % limit[2], limit[2]>>)
    IN  IF below THEN FALSE
        ELSE IF rl.daily_trade_count >= MAX_DAILY_TRADES THEN FALSE
        ELSE TRUE

can_trade(rl) ==
    LET limit == RSub(Zero, MAX_DAILY_LOSS)
        w == limit[1] \div limit[2]
        below == IF rl.daily_pnl.whole # w THEN rl.daily_pnl.whole < w
                 ELSE RLt(rl.daily_pnl.frac, <<limit[1] % limit[2], limit[2]>>)
    IN  IF below THEN FALSE
        ELSE IF rl.daily_trade_count >= MAX_DAILY_TRADES THEN FALSE
        ELSE TRUE

reset_daily(rl) == [daily_pnl |-> [whole |-> 0, frac |-> Zero], daily_trade_count |-> 0]

\* result["position_dumped"]: the stranded position emergency_exit reports
position_dumped_after_reset(sm) ==
    [side |-> "None", qty |-> Zero, cost_basis |-> Zero]

position_dumped(sm) ==
    IF sm.state = "LEGGED_YES" /\ RLt(Zero, sm.inventory.yes.quantity)
    THEN [side |-> "YES", qty |-> sm.inventory.yes.quantity,
          cost_basis |-> avg_cost(sm.inventory.yes)]
    ELSE IF sm.state = "LEGGED_NO" /\ RLt(Zero, sm.inventory.no.quantity)
    THEN [side |-> "NO", qty |-> sm.inventory.no.quantity,
          cost_basis |-> avg_cost(sm.inventory.no)]
    ELSE [side |-> "None", qty |-> Zero, cost_basis |-> Zero]

emergency_exit_aborts_on_error(sm, cancel) ==
    IF cancel.raised
    THEN [sm |-> sm,
          ret |-> [orders_cancelled |-> 0,
                   position_dumped |-> position_dumped(sm),
                   initial_state |-> sm.state, final_state |-> sm.state],
          raised |-> TRUE]
    ELSE [sm |-> force_neutral(sm),
          ret |-> [orders_cancelled |-> cancel.count,
                   position_dumped |-> position_dumped(sm),
                   initial_state |-> sm.state,
                   final_state |-> force_neutral(sm).state],
          raised |-> FALSE]

\* emergency_exit(order_manager, state_machine), where the order manager's
\* cancel_all_orders raises (cancel.raised) or returns cancel.count
emergency_exit(sm, cancel) ==
    LET orders_cancelled == IF cancel.raised THEN 0 ELSE cancel.count
        sm1 == force_neutral(sm)
    IN  [sm |-> sm1,
         ret |-> [orders_cancelled |-> orders_cancelled,
                  position_dumped |-> position_dumped(sm),
                  initial_state |-> sm.state,
                  final_state |-> sm1.state],
         raised |-> FALSE]

(***************************************************************************)
(* order_manager.py: orders and the two gateways.  An order's id is its    *)
(* index in the sequence of orders the gateway holds.                      *)
(***************************************************************************)
OrderSide == {"YES", "NO"}

Order(side, price, size, status) ==
    [side |-> side, price |-> price, size |-> size, status |-> status]

is_active(o) == o.status \in {"OPEN", "PARTIALLY_FILLED"}

get_open_orders(ords, side) ==
    {id \in 1..Len(ords) : is_active(ords[id]) /\ ords[id].side = side}

Opposite_is_same(side) == side

Opposite(side) == IF side = "YES" THEN "NO" ELSE "YES"

\* PaperOrderManager._simulated_books: the best ask of each side
simulated_best_ask == [YES |-> Cents(52), NO |-> Cents(50)]

\* the first order of ords[i..n] that is active, or NoOrder
RECURSIVE FirstActive(_, _, _)
FirstActive(ords, i, n) ==
    IF i > n THEN NoOrder
    ELSE IF is_active(ords[i]) THEN i
    ELSE FirstActive(ords, i + 1, n)

CancelAll(ords) ==
    [id \in 1..Len(ords) |->
        IF is_active(ords[id]) THEN [ords[id] EXCEPT !.status = "CANCELLED"]
        ELSE ords[id]]

\* cancel_all_orders up to its first suspension: the paper gateway cancels
\* every active order at once; the live one awaits cancel_order for the
\* first active order i of its snapshot 1..n (i = NoOrder: none, finished).
cancel_all_begin(gw, ords) ==
    IF gw = "paper"
    THEN [orders |-> CancelAll(ords), i |-> NoOrder, n |-> Len(ords)]
    ELSE [orders |-> ords, i |-> FirstActive(ords, 1, Len(ords)),
          n |-> Len(ords)]

\* LiveOrderManager.cancel_order(i) has returned (ok: the API call did not
\* raise); cancel_all_orders goes on to the next active order, if any.
cancel_all_resume(ords, i, n, ok) ==
    LET ords1 == IF ok THEN [ords EXCEPT ![i].status = "CANCELLED"] ELSE ords
    IN  [orders |-> ords1, i |-> FirstActive(ords1, i + 1, n), n |-> n]

\* what a gateway call leaves behind: the orders it holds, what it returns
\* (or that it raised) and the fill callbacks it has awaited
GatewayResult(ords, ret, raised, cb) ==
    [orders |-> ords, ret |-> ret, raised |-> raised, cb |-> cb]

Fill(id, side, price, qty) ==
    [id |-> id, side |-> side, price |-> price, qty |-> qty]

\* cancel_order(id); ok: the live API call self.client.cancel did not raise
cancel_order(gw, ords, id, ok) ==
    LET known == id \in 1..Len(ords)
        cancelled == [ords EXCEPT ![id].status = "CANCELLED"]
    IN  IF gw = "paper"
        THEN IF known THEN GatewayResult(cancelled, TRUE, FALSE, <<>>)
             ELSE GatewayResult(ords, FALSE, FALSE, <<>>)
        ELSE IF ok
             THEN GatewayResult(IF known THEN cancelled ELSE ords,
                                TRUE, FALSE, <<>>)
             ELSE GatewayResult(ords, FALSE, FALSE, <<>>)

\* market_buy(side, size); ask: the best ask of the side's book (Zero: the
\* book has none, or get_order_book failed); ok: the live place_limit_buy
\* did not raise
market_buy(gw, ords, side, size, ask, ok) ==
    IF gw = "paper"
    THEN LET fill_price == IF ask # Zero THEN ask ELSE Cents(55)
             order == Order(side, fill_price, size, "FILLED")
         IN  GatewayResult(Append(ords, order), order, FALSE,
                           <<Fill(Len(ords) + 1, side, fill_price, size)>>)
    ELSE IF ask = Zero \/ ~ok THEN GatewayResult(ords, <<>>, TRUE, <<>>)
         ELSE LET order == Order(side, ask, size, "OPEN")
              IN  GatewayResult(Append(ords, order), order, FALSE, <<>>)

\* PaperOrderManager.simulate_fill(order_id, fill_price); fill_price Zero:
\* none given
simulate_fill(ords, id, fill_price) ==
    IF id \notin 1..Len(ords) \/ ~is_active(ords[id])
    THEN GatewayResult(ords, FALSE, FALSE, <<>>)
    ELSE LET price == IF fill_price # Zero THEN fill_price
                      ELSE ords[id].price
         IN  GatewayResult([ords EXCEPT ![id].status = "FILLED"], TRUE,
                           FALSE,
                           <<Fill(id, ords[id].side, price, ords[id].size)>>)

\* LiveOrderManager.refresh_order_status(order_id); response: what
\* self.client.get_order answers (or that it raised), with filled telling
\* whether filledSize is positive
refresh_order_status(ords, id, response) ==
    IF response.raised \/ id \notin 1..Len(ords)
    THEN GatewayResult(ords, <<>>, FALSE, <<>>)
    ELSE LET status == CASE response.status = "open" -> "OPEN"
                         [] response.status = "filled" -> "FILLED"
                         [] response.status = "cancelled" -> "CANCELLED"
                         [] OTHER -> ords[id].status
             ords1 == [ords EXCEPT ![id].status = status]
         IN  GatewayResult(ords1, <<status>>, FALSE,
                           IF status = "FILLED" /\ response.filled
                           THEN <<Fill(id, ords[id].side, response.price,
                                       ords[id].size)>>
                           ELSE <<>>)

(***************************************************************************)
(* bot.py: pure parts of LeggedArbBot                                      *)
(***************************************************************************)
calculate_fair_values ==
    LET fv_yes == Cents(50) IN [YES |-> fv_yes, NO |-> RSub(One, fv_yes)]

calculate_hedge_price_floor(cost_basis) == Cents(1)

calculate_hedge_price(cost_basis) ==
    LET max_hedge == RSub(RSub(One, cost_basis), MIN_PROFIT)
    IN  RMax(Cents(1), RMin(Cents(99), max_hedge))

\* the size _place_bid computes when none is given
bid_size(psize, price) ==
    LET size == RDiv(psize, price)
    IN  RDiv(validate_order_size(RMul(size, price)), price)

held(inv, side) == IF side = "YES" THEN inv.yes ELSE inv.no

bot_on_fill_resets_on_new_leg(sm, ao, rl, side, price, qty) ==
    LET r == on_fill(sm, side, price, qty)
        order_side == IF side = "YES" THEN "YES" ELSE "NO"
    IN  [state_machine |-> r.sm,
         active_orders |-> [ao EXCEPT ![order_side] = NoOrder],
         risk_limits |->
             IF r.ret = "LOCKED"
             THEN record_pnl(rl, RMul(locked_profit(r.sm.inventory), qty))
             ELSE reset_daily(rl)]

bot_on_fill_records_every_fill(sm, ao, rl, side, price, qty) ==
    LET r == on_fill(sm, side, price, qty)
        order_side == IF side = "YES" THEN "YES" ELSE "NO"
    IN  [state_machine |-> r.sm,
         active_orders |-> [ao EXCEPT ![order_side] = NoOrder],
         risk_limits |->
             record_pnl(rl, RMul(locked_profit(r.sm.inventory), qty))]

\* LeggedArbBot._on_fill: the state machine, the tracker and the risk
\* counters after a fill is reported
bot_on_fill(sm, ao, rl, side, price, qty) ==
    LET order_side == IF side = "YES" THEN "YES" ELSE "NO"
    IN  CHOOSE f \in
            {[state_machine |-> r.sm,
              active_orders |-> [ao EXCEPT ![order_side] = NoOrder],
              risk_limits |->
                  IF r.ret = "LOCKED"
                  THEN record_pnl(rl, RMul(locked_profit(r.sm.inventory),
                                           qty))
                  ELSE rl] :
             r \in {on_fill(sm, side, price, qty)}} : TRUE

(***************************************************************************)
(* State.                                                                  *)
(***************************************************************************)
VARIABLES
    state_machine,    \* the StateMachine: state, inventory, transition_count
    adds,             \* per side, the Position.add calls since its last reset
    last,             \* the last call made on the state machine, its outcome
    gateway,          \* which order manager the bot was built with
    position_size,    \* config.trading.position_size
    orders,           \* the gateway's orders, by id
    active_orders,    \* LeggedArbBot._active_orders: per side an id or NoOrder
    risk_limits,      \* RiskLimits: daily_pnl, daily_trade_count
    legged_at,        \* SafetyMonitor._legged_at
    legged_since,     \* the instant the phase last became LEGGED_YES/LEGGED_NO
    now,              \* the clock, in seconds
    expiry_timestamp, \* LeggedArbBot._expiry_timestamp
    btc_price,        \* LeggedArbBot._btc_price: "None" or "set"
    run,              \* where LeggedArbBot.run is
    tick,             \* the on_tick coroutine: where it is, and its locals
    tasks,            \* emergency exits and sweeps that have not finished
    journal           \* what the tick in progress has computed and met

smVars == <<state_machine, adds, last>>
botVars == <<gateway, position_size, orders, active_orders, risk_limits,
             legged_at, legged_since, now, expiry_timestamp, btc_price, run,
             tick, tasks, journal>>
vars == <<state_machine, adds, last, gateway, position_size, orders,
          active_orders, risk_limits, legged_at, legged_since, now,
          expiry_timestamp, btc_price, run, tick, tasks, journal>>

NoCall == [op |-> "none", arg |-> <<>>, ret |-> <<>>, raised |-> FALSE,
           pre |-> StateMachine]

Call(op, arg, ret, raised) ==
    [op |-> op, arg |-> arg, ret |-> ret, raised |-> raised,
     pre |-> state_machine]

NoAdds == [yes |-> <<>>, no |-> <<>>]

\* the log after on_fill / add on a side; nothing is logged for a bad side
LogAdd(log, side, qty, price) ==
    CASE Upper(side) = "YES" -> [log EXCEPT !.yes = Append(@, <<qty, price>>)]
      [] Upper(side) = "NO" -> [log EXCEPT !.no = Append(@, <<qty, price>>)]
      [] OTHER -> log

(***************************************************************************)
(* Inputs of the calls.                                                    *)
(***************************************************************************)
SideInputs == {"YES", "NO", "yes", "no", "MAYBE"}
QtyInputs == {One, Rat(5, 2)}
PriceInputs == {Zero, Cents(40), Cents(60)}
\* what cancel_all_orders does when emergency_exit calls it
CancelInputs ==
    {[raised |-> TRUE, count |-> 0], [raised |-> FALSE, count |-> 0],
     [raised |-> FALSE, count |-> 2]}

(***************************************************************************)
(* The state machine driven through its public interface.                  *)
(***************************************************************************)
IdleTick ==
    [pc |-> "idle", side |-> "YES", price |-> Zero, size |-> Zero,
     ctx |-> "none", rest |-> <<>>, oid |-> NoOrder, i |-> NoOrder, n |-> 0]

\* nothing is noted between two ticks
NoJournal ==
    [phase |-> "none", hedge |-> Zero, fills |-> FALSE, failed |-> FALSE]

\* the journal after a step of the tick: j while the tick goes on
Noted(j) == journal' = IF tick'.pc = "idle" THEN NoJournal ELSE j

\* LeggedArbBot.__init__, before run()
InitBotVars ==
    /\ orders = <<>>
    /\ active_orders = [YES |-> NoOrder, NO |-> NoOrder]
    /\ risk_limits = RiskLimits
    /\ legged_at = NoTime
    /\ legged_since = NoTime
    /\ now = 0
    /\ btc_price = "None"
    /\ run = "running"
    /\ tick = IdleTick
    /\ tasks = <<>>
    /\ journal = NoJournal

InitSM ==
    /\ state_machine = StateMachine
    /\ adds = NoAdds
    /\ last = NoCall
    /\ gateway = "paper"
    /\ expiry_timestamp = NoTime
    /\ position_size = POSITION_SIZE
    /\ InitBotVars

Transition(new_state) ==
    /\ UNCHANGED botVars
    /\ LET r == transition(state_machine, new_state)
       IN  /\ r.sm.transition_count <= MaxTransitions
           /\ state_machine' = r.sm
           /\ last' = Call("transition", <<new_state>>, <<r.ret>>, FALSE)
    /\ UNCHANGED adds

OnFill(side, price, qty) ==
    /\ UNCHANGED botVars
    /\ Len(adds.yes) + Len(adds.no) < MaxAdds
    /\ LET r == on_fill(state_machine, side, price, qty)
       IN  /\ r.sm.transition_count <= MaxTransitions
           /\ state_machine' = r.sm
           /\ last' = Call("on_fill", <<side, price, qty>>,
                           IF r.raised THEN <<>> ELSE <<r.ret>>, r.raised)
           /\ adds' = IF r.sm.inventory = state_machine.inventory
                      THEN adds
                      ELSE LogAdd(adds, side, qty, price)

ForceNeutral ==
    /\ UNCHANGED botVars
    /\ state_machine' = force_neutral(state_machine)
    /\ last' = Call("force_neutral", <<>>, <<>>, FALSE)
    /\ adds' = NoAdds

\* sm.inventory.<side>.add(qty, price), as the tests call it
PositionAdd(side, qty, price) ==
    /\ UNCHANGED botVars
    /\ Len(adds.yes) + Len(adds.no) < MaxAdds
    /\ state_machine' =
           IF side = "YES"
           THEN [state_machine EXCEPT
                     !.inventory.yes = add(@, qty, price)]
           ELSE [state_machine EXCEPT
                     !.inventory.no = add(@, qty, price)]
    /\ last' = Call("add", <<side, price, qty>>, <<>>, FALSE)
    /\ adds' = LogAdd(adds, side, qty, price)

\* sm.inventory.<side>.reset()
PositionReset(side) ==
    /\ UNCHANGED botVars
    /\ state_machine' =
           IF side = "YES"
           THEN [state_machine EXCEPT !.inventory.yes = reset(@)]
           ELSE [state_machine EXCEPT !.inventory.no = reset(@)]
    /\ last' = Call("reset", <<side>>, <<>>, FALSE)
    /\ adds' = IF side = "YES" THEN [adds EXCEPT !.yes = <<>>]
                               ELSE [adds EXCEPT !.no = <<>>]

\* emergency_exit(order_manager, sm) called on the state machine
EmergencyExit(cancel) ==
    /\ UNCHANGED botVars
    /\ LET r == emergency_exit(state_machine, cancel)
       IN  /\ state_machine' = r.sm
           /\ last' = Call("emergency_exit", <<cancel>>,
                           IF r.raised THEN <<>> ELSE <<r.ret>>, r.raised)
           /\ adds' = IF r.raised THEN adds ELSE NoAdds

NextSM ==
    \/ \E t \in BotState : Transition(t)
    \/ \E side \in SideInputs, price \in PriceInputs, qty \in QtyInputs :
           OnFill(side, price, qty)
    \/ ForceNeutral
    \/ \E side \in {"YES", "NO"}, price \in PriceInputs, qty \in QtyInputs :
           PositionAdd(side, qty, price)
    \/ \E side \in {"YES", "NO"} : PositionReset(side)
    \/ \E cancel \in CancelInputs : EmergencyExit(cancel)

SpecSM == InitSM /\ [][NextSM]_vars


(***************************************************************************)
(* SafetyMonitor and RiskLimits driven through their public interface.     *)
(***************************************************************************)
\* the most record_pnl calls made on a counter that starts at 0, or three
\* below max_daily_trades
MaxRecords == 3

PnlInputs == {Zero, Rat(-50, 1), Rat(-5001, 100)}
CostBasisInputs == {Rat(-1, 2), Zero, Cents(40), Cents(60)}
CurrentPriceInputs == {Cents(33), Cents(34), Cents(40), Cents(70)}
SecondsInputs == {-30, 90, 119, 120, 121, 300}

SafetyCall(op, arg, ret) ==
    [op |-> op, arg |-> arg, ret |-> ret, raised |-> FALSE,
     pre |-> risk_limits]

\* a fresh RiskLimits, or one on which record_pnl(0.0) was called three
\* times fewer than max_daily_trades
InitSafety ==
    /\ state_machine = StateMachine
    /\ adds = NoAdds
    /\ last = NoCall
    /\ gateway = "paper"
    /\ expiry_timestamp = NoTime
    /\ position_size = POSITION_SIZE
    /\ orders = <<>>
    /\ active_orders = [YES |-> NoOrder, NO |-> NoOrder]
    /\ risk_limits \in
           {RiskLimits,
            [RiskLimits EXCEPT !.daily_trade_count = MAX_DAILY_TRADES - 3]}
    /\ legged_at = NoTime
    /\ legged_since = NoTime
    /\ now = 0
    /\ btc_price = "None"
    /\ run = "running"
    /\ tick = IdleTick
    /\ tasks = <<>>
    /\ journal = NoJournal

safetyFrame ==
    <<state_machine, adds, gateway, position_size, orders, active_orders,
      legged_at, legged_since, now, expiry_timestamp, btc_price, run, tick,
      tasks, journal>>

RecordPnl(pnl) ==
    /\ risk_limits.daily_trade_count % (MAX_DAILY_TRADES - 3) < MaxRecords
    /\ risk_limits' = record_pnl(risk_limits, pnl)
    /\ last' = SafetyCall("record_pnl", <<pnl>>, <<>>)
    /\ UNCHANGED safetyFrame

ResetDaily ==
    /\ risk_limits' = reset_daily(risk_limits)
    /\ last' = SafetyCall("reset_daily", <<>>, <<>>)
    /\ UNCHANGED safetyFrame

CanTrade ==
    /\ last' = SafetyCall("can_trade", <<>>, <<can_trade(risk_limits)>>)
    /\ UNCHANGED <<risk_limits, safetyFrame>>

CheckStopLoss(current_price, cost_basis) ==
    /\ last' = SafetyCall("check_stop_loss", <<current_price, cost_basis>>,
                          <<check_stop_loss(current_price, cost_basis)>>)
    /\ UNCHANGED <<risk_limits, safetyFrame>>

CheckGammaStop(seconds) ==
    /\ last' = SafetyCall("check_gamma_stop", <<seconds>>,
                          <<check_gamma_stop(seconds)>>)
    /\ UNCHANGED <<risk_limits, safetyFrame>>

NextSafety ==
    \/ \E pnl \in PnlInputs : RecordPnl(pnl)
    \/ ResetDaily
    \/ CanTrade
    \/ \E cp \in CurrentPriceInputs, cb \in CostBasisInputs :
           CheckStopLoss(cp, cb)
    \/ \E t \in SecondsInputs : CheckGammaStop(t)

SpecSafety == InitSafety /\ [][NextSafety]_vars


(***************************************************************************)
(* The pricing functions called directly: pricing.black_scholes_binary,    *)
(* pricing.get_skewed_bid and LeggedArbBot._calculate_hedge_price.  Each   *)
(* call is recorded in last, with the call before it in last.pre.          *)
(***************************************************************************)
SpotInputs == {Rat(99999, 1), Rat(100000, 1), Rat(100001, 1)}
StrikeInputs == {Rat(100000, 1)}
YearsInputs == {Rat(-1, 100), Zero, Rat(1, 100)}
SigmaInputs == {Rat(-1, 2), Zero, Rat(3, 5)}
FairValueInputs == {Zero, Cents(50), One, Rat(3, 2)}
InventoryInputs == {Rat(-100, 1), Zero, Rat(50, 1), Rat(100, 1)}
SpreadInputs == {Cents(2), Rat(-1, 1)}
RiskFactorInputs == {Rat(-1, 100), Zero, Cents(1)}
HedgeCostInputs == {Cents(1), Cents(48), Cents(98), Cents(99)}

PricingCall(op, arg, ret, raised) ==
    [op |-> op, arg |-> arg, ret |-> ret, raised |-> raised,
     pre |-> [op |-> last.op, arg |-> last.arg, ret |-> last.ret]]

InitPricing ==
    /\ state_machine = StateMachine
    /\ adds = NoAdds
    /\ last = NoCall
    /\ gateway = "paper"
    /\ expiry_timestamp = NoTime
    /\ position_size = POSITION_SIZE
    /\ InitBotVars

pricingFrame == <<state_machine, adds, botVars>>

BlackScholesBinary(S, K, T, sigma) ==
    /\ LET r == black_scholes_binary(S, K, T, sigma)
       IN  last' = PricingCall("black_scholes_binary", <<S, K, T, sigma>>,
                               <<r.closed_form, r.value>>, r.raised)
    /\ UNCHANGED pricingFrame

GetSkewedBid(fair_value, inventory, spread, risk_factor) ==
    /\ last' = PricingCall("get_skewed_bid",
                           <<fair_value, inventory, spread, risk_factor>>,
                           <<get_skewed_bid(fair_value, inventory, spread,
                                            risk_factor)>>, FALSE)
    /\ UNCHANGED pricingFrame

CalculateHedgePrice(cost_basis) ==
    /\ last' = PricingCall("_calculate_hedge_price", <<cost_basis>>,
                           <<calculate_hedge_price(cost_basis)>>, FALSE)
    /\ UNCHANGED pricingFrame

NextPricing ==
    \/ \E S \in SpotInputs, K \in StrikeInputs, T \in YearsInputs,
          sigma \in SigmaInputs : BlackScholesBinary(S, K, T, sigma)
    \/ \E fv \in FairValueInputs, inv \in InventoryInputs,
          sp \in SpreadInputs, rf \in RiskFactorInputs :
           GetSkewedBid(fv, inv, sp, rf)
    \/ \E cb \in HedgeCostInputs : CalculateHedgePrice(cb)

SpecPricing == InitPricing /\ [][NextPricing]_vars


(***************************************************************************)
(* The bot under run(): bot.py, safety.emergency_exit and the gateways.    *)
(*                                                                         *)
(* Everything runs on one asyncio event loop.  A coroutine is interrupted  *)
(* only where it awaits a live gateway call (asyncio.to_thread); the paper *)
(* gateway's coroutines never suspend, so with it a tick, and an           *)
(* emergency exit, runs from start to end without interruption.            *)
(***************************************************************************)
\* bounds of the run
MaxOrders == 3
MaxTasks == 2
MaxClock == 1200
\* set_expiry as main.py calls it for a 15-minute market
ExpirySeconds == 900

\* the seconds that pass between the end of one tick and the start of the
\* next, as datetime.now() reports them
ElapsedInputs == {0, 600}

\* what the live API can report
AskInputs == {Zero, Cents(50), Cents(75)}
FillPriceInputs == {Cents(75)}

AwaitPcs ==
    {"cancel_order", "place_limit_buy", "get_order_book",
     "mkt_get_order_book", "mkt_place_limit_buy", "cancel_all"}

\* another coroutine or callback can run now
CanInterleave ==
    \/ tick.pc = "idle"
    \/ gateway = "live" /\ tick.pc \in AwaitPcs

Remove(seq, k) == [j \in 1..(Len(seq) - 1) |-> IF j < k THEN seq[j] ELSE seq[j + 1]]

Task(kind, pc, i, n) == [kind |-> kind, pc |-> pc, i |-> i, n |-> n]

AfterCancelAll_without_final_sweep(kind, ords, sm, tks, rn) ==
    CASE kind = "exit" ->
           [orders |-> ords, state_machine |-> force_neutral(sm),
            tasks |-> tks, run |-> rn]
      [] kind = "inline" ->
           [orders |-> ords, state_machine |-> force_neutral(sm),
            tasks |-> tks, run |-> "stopped"]
      [] kind = "sweep" ->
           [orders |-> ords, state_machine |-> sm, tasks |-> tks,
            run |-> "stopped"]

\* What follows a finished cancel_all_orders: in emergency_exit, the reset;
\* in run()'s exception handler, the reset and then the final sweep of the
\* finally clause; after the final sweep, run() returns.
AfterCancelAll(kind, ords, sm, tks, rn) ==
    CASE kind = "exit" ->
           [orders |-> ords, state_machine |-> force_neutral(sm),
            tasks |-> tks, run |-> rn]
      [] kind = "inline" ->
           LET c == cancel_all_begin(gateway, ords)
           IN  IF c.i # NoOrder
               THEN [orders |-> c.orders,
                     state_machine |-> force_neutral(sm),
                     tasks |-> Append(tks, Task("sweep", "cancel_order",
                                                c.i, c.n)),
                     run |-> "sweeping"]
               ELSE [orders |-> c.orders,
                     state_machine |-> force_neutral(sm),
                     tasks |-> tks, run |-> "stopped"]
      [] kind = "sweep" ->
           [orders |-> ords, state_machine |-> sm, tasks |-> tks,
            run |-> "stopped"]

\* emergency_exit (or the final sweep) from its start to its first suspension
BeginTask(kind, ords, sm, tks, rn) ==
    LET b == cancel_all_begin(gateway, ords)
    IN  IF b.i # NoOrder
        THEN [orders |-> b.orders, state_machine |-> sm,
              tasks |-> Append(tks, Task(kind, "cancel_order", b.i, b.n)),
              run |-> rn]
        ELSE AfterCancelAll(kind, b.orders, sm, tks, rn)

\* An exception escapes on_tick: run() logs it, awaits _emergency_stop and
\* then, in its finally clause, cancel_all_orders.
Raise(ords) ==
    LET r == BeginTask("inline", ords, state_machine, tasks, "handling")
    IN  /\ tick' = IdleTick
        /\ orders' = r.orders
        /\ state_machine' = r.state_machine
        /\ tasks' = r.tasks
        /\ run' = r.run

run_safety_checks_without_gamma_stop(t) ==
    LET st == state_machine.state
        fv == calculate_fair_values
        pt == check_position_timeout(st, legged_at, t)
        sl == \/ /\ st = "LEGGED_YES"
                 /\ check_stop_loss(fv.YES,
                                    avg_cost(state_machine.inventory.yes))
              \/ /\ st = "LEGGED_NO"
                 /\ check_stop_loss(fv.NO,
                                    avg_cost(state_machine.inventory.no))
    IN  IF pt.triggered THEN [ok |-> FALSE, legged_at |-> pt.legged_at]
        ELSE [ok |-> ~sl, legged_at |-> pt.legged_at]

run_safety_checks_without_stop_loss(t) ==
    LET st == state_machine.state
        gamma == /\ expiry_timestamp # NoTime
                 /\ check_gamma_stop(expiry_timestamp - t)
        pt == check_position_timeout(st, legged_at, t)
    IN  IF gamma THEN [ok |-> FALSE, legged_at |-> legged_at]
        ELSE [ok |-> ~pt.triggered, legged_at |-> pt.legged_at]

\* _run_safety_checks at time t
run_safety_checks(t) ==
    LET st == state_machine.state
        fv == calculate_fair_values
        gamma == /\ expiry_timestamp # NoTime
                 /\ check_gamma_stop(expiry_timestamp - t)
        pt == check_position_timeout(st, legged_at, t)
        sl == \/ /\ st = "LEGGED_YES"
                 /\ check_stop_loss(fv.YES,
                                    avg_cost(state_machine.inventory.yes))
              \/ /\ st = "LEGGED_NO"
                 /\ check_stop_loss(fv.NO,
                                    avg_cost(state_machine.inventory.no))
    IN  IF gamma THEN [ok |-> FALSE, legged_at |-> legged_at]
        ELSE IF pt.triggered THEN [ok |-> FALSE, legged_at |-> pt.legged_at]
        ELSE [ok |-> ~sl, legged_at |-> pt.legged_at]

\* on_tick's dispatch on the phase it read
Dispatch_bids_when_locked(st) ==
    LET fv == calculate_fair_values
        inv == state_machine.inventory
    IN  IF st \in {"NEUTRAL", "LOCKED"}
        THEN [IdleTick EXCEPT
                  !.pc = "bid", !.side = "YES",
                  !.price = get_skewed_bid(fv.YES, inv.yes.quantity,
                                           TARGET_MARGIN, RISK_FACTOR),
                  !.rest = <<get_skewed_bid(fv.NO, inv.no.quantity,
                                            TARGET_MARGIN, RISK_FACTOR)>>]
        ELSE [IdleTick EXCEPT !.pc = "trapper",
                              !.side = IF st = "LEGGED_YES" THEN "YES"
                                       ELSE "NO"]

Dispatch(st) ==
    LET fv == calculate_fair_values
        inv == state_machine.inventory
    IN  CASE st = "NEUTRAL" ->
               [IdleTick EXCEPT
                    !.pc = "bid", !.side = "YES",
                    !.price = get_skewed_bid(fv.YES, inv.yes.quantity,
                                             TARGET_MARGIN, RISK_FACTOR),
                    !.rest = <<get_skewed_bid(fv.NO, inv.no.quantity,
                                              TARGET_MARGIN, RISK_FACTOR)>>]
          [] st = "LEGGED_YES" ->
               [IdleTick EXCEPT !.pc = "trapper", !.side = "YES"]
          [] st = "LEGGED_NO" ->
               [IdleTick EXCEPT !.pc = "trapper", !.side = "NO"]
          [] st = "LOCKED" -> [IdleTick EXCEPT !.pc = "vault"]

\* the most orders a tick that reads phase st can place
MaxPlaced(st) ==
    CASE st = "NEUTRAL" -> 2
      [] st \in {"LEGGED_YES", "LEGGED_NO"} -> 1
      [] st = "LOCKED" -> 0

\* run() starts the next tick, dt seconds after the last one: on_tick down
\* to the call of its phase handler.
OnTick(dt) ==
    /\ run = "running"
    /\ tick.pc = "idle"
    /\ \A k \in 1..Len(tasks) : tasks[k].pc # "created"
    /\ now + dt <= MaxClock
    /\ now' = now + dt
    /\ LET safe == run_safety_checks(now + dt)
       IN  /\ legged_at' = safe.legged_at
           /\ IF ~safe.ok
              THEN /\ Len(tasks) < MaxTasks
                   /\ tasks' = Append(tasks, Task("exit", "created",
                                                  NoOrder, 0))
                   /\ UNCHANGED <<tick, orders, state_machine, run>>
              ELSE IF ~can_trade(risk_limits)
              THEN UNCHANGED <<tick, tasks, orders, state_machine, run>>
              ELSE IF btc_price = "None"
              THEN Raise(orders)
              ELSE /\ tick' = Dispatch(state_machine.state)
                   /\ UNCHANGED <<tasks, orders, state_machine, run>>
    /\ Noted([NoJournal EXCEPT !.phase = state_machine.state])
    /\ UNCHANGED <<adds, last, gateway, position_size, legged_since,
                   active_orders, risk_limits, expiry_timestamp, btc_price>>

\* a tick of the run, which places at most MaxOrders orders
TickStart(dt) ==
    /\ Len(orders) + MaxPlaced(state_machine.state) <= MaxOrders
    /\ OnTick(dt)

\* the tick after _place_bid has returned
AfterBid ==
    IF tick.rest # <<>>
    THEN [IdleTick EXCEPT !.pc = "bid", !.side = "NO", !.price = tick.rest[1]]
    ELSE IdleTick

place_bid_begin_without_cancel(t, ao) ==
    IF ~validate_price(t.price) THEN AfterBid
    ELSE [t EXCEPT !.pc = "place_limit_buy",
                   !.size = bid_size(position_size, t.price)]

place_bid_begin_cancels_first(t, ao) ==
    IF ao[t.side] # NoOrder
    THEN [t EXCEPT !.pc = "cancel_order", !.ctx = "bid", !.oid = ao[t.side]]
    ELSE IF ~validate_price(t.price) THEN AfterBid
    ELSE [t EXCEPT !.pc = "place_limit_buy",
                   !.size = bid_size(position_size, t.price)]

\* _place_bid(t.side, t.price) down to its first gateway call, or to its
\* return when the price is rejected: the coroutine after it
place_bid_begin(t, ao) ==
    IF ~validate_price(t.price) THEN AfterBid
    ELSE IF ao[t.side] # NoOrder
    THEN [t EXCEPT !.pc = "cancel_order", !.ctx = "bid", !.oid = ao[t.side]]
    ELSE [t EXCEPT !.pc = "place_limit_buy",
                   !.size = bid_size(position_size, t.price)]

\* _place_bid(side, price) down to its first gateway call
TickBid ==
    /\ tick.pc = "bid"
    /\ tick' = place_bid_begin(tick, active_orders)
    /\ Noted(journal)
    /\ UNCHANGED <<smVars, gateway, position_size, legged_since, orders,
                   active_orders, risk_limits, legged_at, now,
                   expiry_timestamp, btc_price, run, tasks>>

\* _phase_trapper_yes / _phase_trapper_no down to the first gateway call;
\* tick.side is the side held
TickTrapper ==
    /\ tick.pc = "trapper"
    /\ tick' =
           IF active_orders[tick.side] # NoOrder
           THEN [tick EXCEPT !.pc = "cancel_order", !.ctx = "trapper",
                             !.oid = active_orders[tick.side]]
           ELSE [tick EXCEPT
                     !.pc = "get_order_book",
                     !.price = calculate_hedge_price(
                         avg_cost(held(state_machine.inventory, tick.side)))]
    /\ Noted([journal EXCEPT !.hedge = tick'.price])
    /\ UNCHANGED <<smVars, gateway, position_size, legged_since, orders,
                   active_orders, risk_limits, legged_at, now,
                   expiry_timestamp, btc_price, run, tasks>>

\* cancel_order(oid) returns to _cancel_side_order, which clears the slot
\* whatever the answer.  ok: the order was cancelled (the paper gateway
\* cancels any order it knows; the live one fails when the API call raises).
TickCancelOrderDone(ok) ==
    /\ tick.pc = "cancel_order"
    /\ gateway = "paper" => ok
    /\ orders' = IF ok THEN [orders EXCEPT ![tick.oid].status = "CANCELLED"]
                 ELSE orders
    /\ active_orders' = [active_orders EXCEPT ![tick.side] = NoOrder]
    /\ tick' =
           IF tick.ctx = "bid"
           THEN [tick EXCEPT !.pc = "place_limit_buy", !.ctx = "none",
                             !.oid = NoOrder,
                             !.size = bid_size(position_size, tick.price)]
           ELSE [tick EXCEPT
                     !.pc = "get_order_book", !.ctx = "none",
                     !.oid = NoOrder,
                     !.price = calculate_hedge_price(
                         avg_cost(held(state_machine.inventory, tick.side)))]
    /\ Noted([journal EXCEPT
                 !.failed = @ \/ ~ok,
                 !.hedge = IF tick.ctx = "trapper" THEN tick'.price ELSE @])
    /\ UNCHANGED <<smVars, gateway, position_size, legged_since, risk_limits,
                   legged_at, now, expiry_timestamp, btc_price, run, tasks>>

\* place_limit_buy returns to _place_bid (ok), or raises (live gateway only)
TickPlaceDone(ok) ==
    /\ tick.pc = "place_limit_buy"
    /\ gateway = "paper" => ok
    /\ IF ok
       THEN /\ orders' = Append(orders, Order(tick.side, tick.price,
                                              tick.size, "OPEN"))
            /\ active_orders' =
                   [active_orders EXCEPT ![tick.side] = Len(orders) + 1]
            /\ tick' = AfterBid
            /\ UNCHANGED <<state_machine, tasks, run>>
       ELSE /\ Raise(orders)
            /\ UNCHANGED active_orders
    /\ Noted(journal)
    /\ UNCHANGED <<adds, last, gateway, position_size, legged_since,
                   risk_limits, legged_at, now, expiry_timestamp, btc_price>>

\* get_order_book(opposite side) returns its best ask (Zero: none) to the
\* trapper, which crosses the spread or bids.  The paper gateway fills a
\* market buy and reports the fill before market_buy returns.
TickOrderBookDone(ask) ==
    /\ tick.pc = "get_order_book"
    /\ ask \in (IF gateway = "paper"
                THEN {simulated_best_ask[Opposite(tick.side)]}
                ELSE AskInputs)
    /\ LET opp == Opposite(tick.side)
           qty == held(state_machine.inventory, tick.side).quantity
       IN  IF ask # Zero /\ RLe(ask, tick.price)
           THEN IF gateway = "paper"
                THEN \E f \in {bot_on_fill(state_machine, active_orders,
                                           risk_limits, opp, ask, qty)} :
                         /\ orders' = Append(orders,
                                             Order(opp, ask, qty, "FILLED"))
                         /\ state_machine' = f.state_machine
                         /\ active_orders' = f.active_orders
                         /\ risk_limits' = f.risk_limits
                         /\ tick' = IdleTick
                ELSE /\ tick' = [tick EXCEPT !.pc = "mkt_get_order_book",
                                             !.size = qty]
                     /\ UNCHANGED <<orders, state_machine, active_orders,
                                    risk_limits>>
           ELSE /\ tick' = [IdleTick EXCEPT !.pc = "bid", !.side = opp,
                                            !.price = tick.price]
                /\ UNCHANGED <<orders, state_machine, active_orders,
                               risk_limits>>
    /\ Noted(journal)
    /\ UNCHANGED <<adds, last, gateway, position_size, legged_since,
                   legged_at, now, expiry_timestamp, btc_price, run, tasks>>

\* LiveOrderManager.market_buy: its own get_order_book returns
TickMktBookDone(ask) ==
    /\ tick.pc = "mkt_get_order_book"
    /\ ask \in AskInputs
    /\ IF ask = Zero
       THEN Raise(orders)
       ELSE /\ tick' = [tick EXCEPT !.pc = "mkt_place_limit_buy",
                                    !.price = ask]
            /\ UNCHANGED <<orders, state_machine, tasks, run>>
    /\ Noted(journal)
    /\ UNCHANGED <<adds, last, gateway, position_size, legged_since,
                   active_orders, risk_limits, legged_at, now,
                   expiry_timestamp, btc_price>>

\* LiveOrderManager.market_buy: its place_limit_buy at the ask returns an
\* OPEN order, which the bot does not record, or raises
TickMktPlaceDone(ok) ==
    /\ tick.pc = "mkt_place_limit_buy"
    /\ IF ok
       THEN /\ orders' = Append(orders, Order(Opposite(tick.side), tick.price,
                                              tick.size, "OPEN"))
            /\ tick' = IdleTick
            /\ UNCHANGED <<state_machine, tasks, run>>
       ELSE Raise(orders)
    /\ Noted(journal)
    /\ UNCHANGED <<adds, last, gateway, position_size, legged_since,
                   active_orders, risk_limits, legged_at, now,
                   expiry_timestamp, btc_price>>

\* _phase_vault down to the first suspension of cancel_all_orders
TickVault ==
    /\ tick.pc = "vault"
    /\ LET b == cancel_all_begin(gateway, orders)
       IN  /\ orders' = b.orders
           /\ IF b.i # NoOrder
              THEN /\ tick' = [tick EXCEPT !.pc = "cancel_all", !.i = b.i,
                                           !.n = b.n]
                   /\ UNCHANGED active_orders
              ELSE /\ tick' = IdleTick
                   /\ active_orders' = [YES |-> NoOrder, NO |-> NoOrder]
    /\ Noted(journal)
    /\ UNCHANGED <<smVars, gateway, position_size, legged_since, risk_limits,
                   legged_at, now, expiry_timestamp, btc_price, run, tasks>>

\* _phase_vault: a cancel_order of the live cancel_all_orders returns
TickCancelAllDone(ok) ==
    /\ tick.pc = "cancel_all"
    /\ LET c == cancel_all_resume(orders, tick.i, tick.n, ok)
       IN  /\ orders' = c.orders
           /\ IF c.i # NoOrder
              THEN /\ tick' = [tick EXCEPT !.i = c.i]
                   /\ UNCHANGED active_orders
              ELSE /\ tick' = IdleTick
                   /\ active_orders' = [YES |-> NoOrder, NO |-> NoOrder]
    /\ Noted([journal EXCEPT !.failed = @ \/ ~ok])
    /\ UNCHANGED <<smVars, gateway, position_size, legged_since, risk_limits,
                   legged_at, now, expiry_timestamp, btc_price, run, tasks>>

\* The task made by asyncio.create_task(self._emergency_stop(..)) runs:
\* emergency_exit down to its first suspension, or to its end.
TaskStart(k) ==
    /\ k \in 1..Len(tasks)
    /\ tasks[k].pc = "created"
    /\ CanInterleave
    /\ LET r == BeginTask("exit", orders, state_machine, Remove(tasks, k), run)
       IN  /\ orders' = r.orders
           /\ state_machine' = r.state_machine
           /\ tasks' = r.tasks
           /\ run' = r.run
    /\ UNCHANGED <<adds, last, gateway, position_size, legged_since,
                   active_orders, risk_limits, legged_at, now,
                   expiry_timestamp, btc_price, tick, journal>>

\* a cancel_order awaited by the cancel_all_orders of task k returns
TaskCancelDone(k, ok) ==
    /\ k \in 1..Len(tasks)
    /\ tasks[k].pc = "cancel_order"
    /\ CanInterleave
    /\ LET c == cancel_all_resume(orders, tasks[k].i, tasks[k].n, ok)
           r == AfterCancelAll(tasks[k].kind, c.orders, state_machine,
                               Remove(tasks, k), run)
       IN  IF c.i # NoOrder
           THEN /\ orders' = c.orders
                /\ tasks' = [tasks EXCEPT ![k].i = c.i]
                /\ UNCHANGED <<state_machine, run>>
           ELSE /\ orders' = r.orders
                /\ state_machine' = r.state_machine
                /\ tasks' = r.tasks
                /\ run' = r.run
    /\ UNCHANGED <<adds, last, gateway, position_size, legged_since,
                   active_orders, risk_limits, legged_at, now,
                   expiry_timestamp, btc_price, tick, journal>>

\* the prices at which order id can fill: its own, or one the API reports
FillPrices(id) == {orders[id].price} \cup FillPriceInputs

\* the gateway reports order id filled in full at price fp: the order
\* becomes FILLED and the fill callback, LeggedArbBot._on_fill, runs
\* refresh_order_status notifies a fill only if filled_qty > 0; simulate_fill
\* notifies every fill
reports_fill(o) == gateway = "paper" \/ RLt(Zero, o.size)

Filled(id, fp) ==
    /\ id \in 1..Len(orders)
    /\ is_active(orders[id])
    /\ fp \in FillPrices(id)
    /\ CanInterleave
    /\ \E f \in {IF ~reports_fill(orders[id])
                   THEN [state_machine |-> state_machine,
                         active_orders |-> active_orders,
                         risk_limits |-> risk_limits]
                   ELSE bot_on_fill(state_machine, active_orders,
                                    risk_limits, orders[id].side, fp,
                                    orders[id].size)} :
           /\ orders' = [orders EXCEPT ![id].status = "FILLED"]
           /\ state_machine' = f.state_machine
           /\ active_orders' = f.active_orders
           /\ risk_limits' = f.risk_limits
           /\ legged_since' =
                  IF /\ f.state_machine.state \in {"LEGGED_YES", "LEGGED_NO"}
                     /\ f.state_machine.state # state_machine.state
                  THEN now ELSE legged_since
    /\ journal' = IF tick.pc = "idle" THEN journal
                  ELSE [journal EXCEPT !.fills = TRUE]
    /\ UNCHANGED <<adds, last, gateway, position_size, legged_at, now,
                   expiry_timestamp, btc_price, run, tick, tasks>>

\* LiveOrderManager.poll_for_fills: refresh_order_status finds an active
\* order filled
PollForFills(id, fp) == gateway = "live" /\ Filled(id, fp)

\* PaperOrderManager.simulate_fill(order_id, fill_price)
SimulateFill(id, fp) == gateway = "paper" /\ Filled(id, fp)

\* the price feed calls _on_price_update
PriceUpdate ==
    /\ CanInterleave
    /\ btc_price = "None"
    /\ btc_price' = "set"
    /\ UNCHANGED <<smVars, gateway, position_size, legged_since, orders,
                   active_orders, risk_limits, legged_at, now,
                   expiry_timestamp, run, tick, tasks, journal>>

\* run() is cancelled (the process is interrupted): CancelledError is raised
\* where run() is suspended, in the sleep between ticks, in a gateway await
\* of the tick, or in the emergency stop of the exception handler, which is
\* abandoned; the finally clause then starts the final sweep.
Cancel ==
    /\ run \in {"running", "handling"}
    /\ CanInterleave
    /\ LET r == BeginTask("sweep", orders, state_machine,
                          SelectSeq(tasks, LAMBDA t : t.kind # "inline"),
                          "sweeping")
       IN  /\ tick' = IdleTick
           /\ orders' = r.orders
           /\ state_machine' = r.state_machine
           /\ tasks' = r.tasks
           /\ run' = r.run
    /\ Noted(journal)
    /\ UNCHANGED <<adds, last, gateway, position_size, legged_since,
                   active_orders, risk_limits, legged_at, now,
                   expiry_timestamp, btc_price>>

Init ==
    /\ state_machine = StateMachine
    /\ adds = NoAdds
    /\ last = NoCall
    /\ gateway \in {"paper", "live"}
    /\ expiry_timestamp \in {NoTime, ExpirySeconds}
    /\ position_size = POSITION_SIZE
    /\ InitBotVars

Next ==
    \/ \E dt \in ElapsedInputs : TickStart(dt)
    \/ TickBid
    \/ TickTrapper
    \/ \E ok \in BOOLEAN : TickCancelOrderDone(ok)
    \/ \E ok \in BOOLEAN : TickPlaceDone(ok)
    \/ \E ask \in AskInputs \cup {Cents(52)} : TickOrderBookDone(ask)
    \/ \E ask \in AskInputs : TickMktBookDone(ask)
    \/ \E ok \in BOOLEAN : TickMktPlaceDone(ok)
    \/ TickVault
    \/ \E ok \in BOOLEAN : TickCancelAllDone(ok)
    \/ \E k \in 1..Len(tasks) : TaskStart(k)
    \/ \E k \in 1..Len(tasks), ok \in BOOLEAN : TaskCancelDone(k, ok)
    \/ \E id \in 1..Len(orders) : \E fp \in FillPrices(id) :
           PollForFills(id, fp)
    \/ \E id \in 1..Len(orders) : \E fp \in FillPrices(id) :
           SimulateFill(id, fp)
    \/ PriceUpdate
    \/ Cancel

Spec == Init /\ [][Next]_vars

(***************************************************************************)
(* _place_bid called on its own, with any price.                           *)
(***************************************************************************)
BidPriceInputs == {Zero, Cents(1), Cents(48), Cents(99), One}

\* await self._place_bid(side, price), outside a tick
PlaceBid(side, price) ==
    /\ run = "running"
    /\ tick.pc = "idle"
    /\ Len(orders) < MaxOrders
    /\ tick' = place_bid_begin(
                   [IdleTick EXCEPT !.pc = "bid", !.side = side,
                                    !.price = price],
                   active_orders)
    /\ last' = [op |-> "_place_bid", arg |-> <<side, price>>, ret |-> <<>>,
                raised |-> FALSE,
                pre |-> [orders |-> orders, active_orders |-> active_orders]]
    /\ UNCHANGED <<state_machine, adds, gateway, position_size, legged_since,
                   orders, active_orders, risk_limits, legged_at, now,
                   expiry_timestamp, btc_price, run, tasks, journal>>

NextPlaceBid ==
    \/ \E side \in OrderSide, price \in BidPriceInputs : PlaceBid(side, price)
    \/ \E ok \in BOOLEAN : TickCancelOrderDone(ok)
    \/ TickPlaceDone(TRUE)

SpecPlaceBid == Init /\ [][NextPlaceBid]_vars

(***************************************************************************)
(* The bot under run() with a gateway that works: no call of the gateway   *)
(* fails, the books show an ask, and run() is not cancelled.  The run is   *)
(* longer than under Spec: a phase is entered again after an emergency     *)
(* exit, and resting bids are replaced tick after tick.                    *)
(***************************************************************************)
MaxWorkingOrders == 5

WorkingAskInputs == {Cents(50)}

\* a tick of the run, which places at most MaxWorkingOrders orders
WorkingTick(dt) ==
    /\ Len(orders) + MaxPlaced(state_machine.state) <= MaxWorkingOrders
    /\ OnTick(dt)

InitWorking ==
    /\ state_machine = StateMachine
    /\ adds = NoAdds
    /\ last = NoCall
    /\ gateway \in {"paper", "live"}
    /\ expiry_timestamp = NoTime
    /\ position_size = POSITION_SIZE
    /\ InitBotVars

NextWorking ==
    \/ \E dt \in ElapsedInputs : WorkingTick(dt)
    \/ TickBid
    \/ TickTrapper
    \/ TickCancelOrderDone(TRUE)
    \/ TickPlaceDone(TRUE)
    \/ \E ask \in WorkingAskInputs \cup {Cents(52)} : TickOrderBookDone(ask)
    \/ \E ask \in WorkingAskInputs : TickMktBookDone(ask)
    \/ TickMktPlaceDone(TRUE)
    \/ TickVault
    \/ TickCancelAllDone(TRUE)
    \/ \E k \in 1..Len(tasks) : TaskStart(k)
    \/ \E k \in 1..Len(tasks) : TaskCancelDone(k, TRUE)
    \/ \E id \in 1..Len(orders) : \E fp \in FillPrices(id) :
           PollForFills(id, fp)
    \/ \E id \in 1..Len(orders) : \E fp \in FillPrices(id) :
           SimulateFill(id, fp)
    \/ PriceUpdate

SpecWorking == InitWorking /\ [][NextWorking]_vars

\* The run with a working gateway under fair scheduling: the loop of run()
\* keeps calling on_tick and every gateway call of a tick returns; the
\* polling task reports the fill of an order that market_buy placed (the bot
\* does not track it) at the price of the order.
TickStep ==
    \/ \E dt \in ElapsedInputs : WorkingTick(dt)
    \/ TickBid
    \/ TickTrapper
    \/ TickCancelOrderDone(TRUE)
    \/ TickPlaceDone(TRUE)
    \/ \E ask \in WorkingAskInputs \cup {Cents(52)} : TickOrderBookDone(ask)
    \/ \E ask \in WorkingAskInputs : TickMktBookDone(ask)
    \/ TickMktPlaceDone(TRUE)
    \/ TickVault
    \/ TickCancelAllDone(TRUE)

MarketBuyFill ==
    \E id \in 1..Len(orders) :
        /\ id \notin {active_orders.YES, active_orders.NO}
        /\ PollForFills(id, orders[id].price)

SpecHedge ==
    /\ InitWorking
    /\ [][NextWorking]_vars
    /\ WF_vars(TickStep)
    /\ WF_vars(MarketBuyFill)

\* The same run with the position size taken from the environment
\* (POSITION_SIZE): the default, or one above the order size limit.
PositionSizeInputs == {POSITION_SIZE, Rat(1000, 1)}

InitSizing ==
    /\ state_machine = StateMachine
    /\ adds = NoAdds
    /\ last = NoCall
    /\ gateway \in {"paper", "live"}
    /\ expiry_timestamp = NoTime
    /\ position_size \in PositionSizeInputs
    /\ InitBotVars

SpecSizing == InitSizing /\ [][NextWorking]_vars


(***************************************************************************)
(* The gateways called directly, with no bot attached: every call is       *)
(* recorded in last with the orders before it (pre) and the fill callbacks *)
(* it delivered (cb).                                                      *)
(***************************************************************************)
\* the number of orders the gateway is given
MaxGatewayOrders == 2

ResponseInputs ==
    {[raised |-> TRUE, status |-> "", filled |-> FALSE, price |-> Zero],
     [raised |-> FALSE, status |-> "open", filled |-> FALSE, price |-> Zero],
     [raised |-> FALSE, status |-> "filled", filled |-> TRUE,
      price |-> Cents(48)],
     [raised |-> FALSE, status |-> "cancelled", filled |-> FALSE,
      price |-> Zero]}

GatewayCall(op, arg, r) ==
    [op |-> op, arg |-> arg, ret |-> r.ret, raised |-> r.raised,
     pre |-> orders, cb |-> r.cb]

InitGateway ==
    /\ state_machine = StateMachine
    /\ adds = NoAdds
    /\ last = [op |-> "none", arg |-> <<>>, ret |-> <<>>, raised |-> FALSE,
               pre |-> <<>>, cb |-> <<>>]
    /\ gateway \in {"paper", "live"}
    /\ expiry_timestamp = NoTime
    /\ position_size = POSITION_SIZE
    /\ InitBotVars

gatewayFrame ==
    <<state_machine, adds, gateway, position_size, active_orders,
      risk_limits, legged_at, legged_since, now, expiry_timestamp, btc_price,
      run, tick, tasks, journal>>

GatewayStep(op, arg, r) ==
    /\ orders' = r.orders
    /\ last' = GatewayCall(op, arg, r)
    /\ UNCHANGED gatewayFrame

PlaceLimitBuy(side, ok) ==
    /\ Len(orders) < MaxGatewayOrders
    /\ gateway = "paper" => ok
    /\ GatewayStep("place_limit_buy", <<side>>,
                   IF ok
                   THEN GatewayResult(
                            Append(orders, Order(side, Cents(48),
                                                 Rat(10, 1), "OPEN")),
                            <<>>, FALSE, <<>>)
                   ELSE GatewayResult(orders, <<>>, TRUE, <<>>))

CancelOrder(id, ok) ==
    /\ gateway = "paper" => ok
    /\ GatewayStep("cancel_order", <<id>>,
                   cancel_order(gateway, orders, id, ok))

MarketBuy(side, ask, ok) ==
    /\ Len(orders) < MaxGatewayOrders
    /\ gateway = "paper" => (ok /\ ask \in {simulated_best_ask[side], Zero})
    /\ GatewayStep("market_buy", <<side, Rat(10, 1), ask>>,
                   market_buy(gateway, orders, side, Rat(10, 1), ask, ok))

GatewaySimulateFill(id, fill_price) ==
    /\ gateway = "paper"
    /\ GatewayStep("simulate_fill", <<id>>,
                   simulate_fill(orders, id, fill_price))

RefreshOrderStatus(id, response) ==
    /\ gateway = "live"
    /\ GatewayStep("refresh_order_status", <<id>>,
                   refresh_order_status(orders, id, response))

\* one round of poll_for_fills refreshes an order that is active
GatewayPollForFills(id, response) ==
    /\ gateway = "live"
    /\ id \in 1..Len(orders)
    /\ is_active(orders[id])
    /\ GatewayStep("poll_for_fills", <<id>>,
                   refresh_order_status(orders, id, response))

NextGateway ==
    \/ \E side \in OrderSide, ok \in BOOLEAN : PlaceLimitBuy(side, ok)
    \/ \E id \in 1..(Len(orders) + 1), ok \in BOOLEAN : CancelOrder(id, ok)
    \/ \E side \in OrderSide, ok \in BOOLEAN :
           \E ask \in AskInputs \cup {simulated_best_ask[side]} :
               MarketBuy(side, ask, ok)
    \/ \E id \in 1..(Len(orders) + 1), fp \in {Zero} \cup FillPriceInputs :
           GatewaySimulateFill(id, fp)
    \/ \E id \in 1..(Len(orders) + 1), response \in ResponseInputs :
           RefreshOrderStatus(id, response)
    \/ \E id \in 1..Len(orders), response \in ResponseInputs :
           GatewayPollForFills(id, response)

SpecGateway == InitGateway /\ [][NextGateway]_vars

(***************************************************************************)
(* Properties of the state machine and the ledger.                         *)
(***************************************************************************)
\* the adjacency table as the design states it
Adjacent(from, to) ==
    \/ from = "NEUTRAL" /\ to \in {"LEGGED_YES", "LEGGED_NO"}
    \/ from = "LEGGED_YES" /\ to \in {"LOCKED", "NEUTRAL"}
    \/ from = "LEGGED_NO" /\ to \in {"LOCKED", "NEUTRAL"}
    \/ from = "LOCKED" /\ to = "NEUTRAL"

FillPhase(from, side) ==
    CASE from = "NEUTRAL" /\ side = "YES" -> "LEGGED_YES"
      [] from = "NEUTRAL" /\ side = "NO" -> "LEGGED_NO"
      [] from = "LEGGED_YES" /\ side = "NO" -> "LOCKED"
      [] from = "LEGGED_NO" /\ side = "YES" -> "LOCKED"
      [] OTHER -> from

\* C2: on_fill on side YES or NO returns, and leaves the machine in, the phase
\* of the table: NEUTRAL+YES -> LEGGED_YES, NEUTRAL+NO -> LEGGED_NO,
\* LEGGED_YES+NO -> LOCKED, LEGGED_NO+YES -> LOCKED, anything else unchanged;
\* in particular a fill never takes NEUTRAL directly to LOCKED.
C2_FillTable ==
    (last.op = "on_fill" /\ last.arg[1] \in {"YES", "NO"}) =>
        /\ ~last.raised
        /\ last.ret = <<state_machine.state>>
        /\ state_machine.state = FillPhase(last.pre.state, last.arg[1])
        /\ last.pre.state = "NEUTRAL" => state_machine.state # "LOCKED"

C2_Witness ==
    /\ last.op = "on_fill"
    /\ last.arg[1] = "NO"
    /\ last.pre.state = "LEGGED_YES"
    /\ state_machine.state = "LOCKED"

\* C3: in every phase on_fill on side YES or NO adds the fill to the ledger:
\* that side's quantity grows by qty and its total_cost by qty x price, and
\* the other side's position is unchanged.
C3_FillLedger ==
    (last.op = "on_fill" /\ last.arg[1] \in {"YES", "NO"}) =>
        LET price == last.arg[2]
            qty == last.arg[3]
            before == last.pre.inventory
            after == state_machine.inventory
            grown(p, q) ==
                /\ q.quantity = RAdd(p.quantity, qty)
                /\ q.total_cost = RAdd(p.total_cost, RMul(qty, price))
        IN  IF last.arg[1] = "YES"
            THEN grown(before.yes, after.yes) /\ after.no = before.no
            ELSE grown(before.no, after.no) /\ after.yes = before.yes

C3_Witness ==
    /\ last.op = "on_fill"
    /\ last.arg = <<"YES", Cents(40), Rat(5, 2)>>
    /\ last.pre.state = "LOCKED"
    /\ state_machine.state = "LOCKED"
    /\ state_machine.inventory.yes.total_cost = One

\* C4: on_fill with a side that is neither YES nor NO (sides are compared
\* after upper-casing) raises, and leaves both positions, the phase and the
\* transition counter as they were.
C4_BadSide ==
    (last.op = "on_fill" /\ Upper(last.arg[1]) \notin {"YES", "NO"}) =>
        /\ last.raised
        /\ state_machine = last.pre

C4_Witness ==
    /\ last.op = "on_fill"
    /\ last.arg[1] = "MAYBE"
    /\ last.raised
    /\ last.pre.state = "LEGGED_NO"
    /\ last.pre.inventory.no.quantity # Zero

\* C5: force_neutral, in any phase and with any inventory, ends in NEUTRAL
\* with both positions at quantity 0 and total_cost 0, and never fails.
C5_ForceNeutral ==
    last.op = "force_neutral" =>
        /\ ~last.raised
        /\ state_machine.state = "NEUTRAL"
        /\ \A pos \in {state_machine.inventory.yes,
                       state_machine.inventory.no} :
               pos.quantity = Zero /\ pos.total_cost = Zero

C5_Witness ==
    /\ last.op = "force_neutral"
    /\ last.pre.state = "LOCKED"
    /\ last.pre.inventory.yes.total_cost # Zero
    /\ last.pre.inventory.no.total_cost # Zero
    /\ state_machine.state = "NEUTRAL"

RECURSIVE SumQty(_)
SumQty(log) ==
    IF log = <<>> THEN Zero ELSE RAdd(log[1][1], SumQty(Tail(log)))

RECURSIVE SumCost(_)
SumCost(log) ==
    IF log = <<>> THEN Zero
    ELSE RAdd(RMul(log[1][1], log[1][2]), SumCost(Tail(log)))

PositionInvariant(pos, log) ==
    /\ RLe(Zero, pos.quantity)
    /\ RLe(Zero, pos.total_cost)
    /\ pos.quantity = SumQty(log)
    /\ pos.total_cost = SumCost(log)
    /\ RMul(avg_cost(pos), pos.quantity) = pos.total_cost
    /\ pos.quantity = Zero => avg_cost(pos) = Zero

\* C6: after any adds (qty > 0, price >= 0) and resets, quantity >= 0 and
\* total_cost >= 0, they are the sums of qty and of qty x price over the adds
\* since the last reset, avg_cost x quantity = total_cost, and quantity = 0
\* implies avg_cost = 0.
C6_PositionSums ==
    /\ PositionInvariant(state_machine.inventory.yes, adds.yes)
    /\ PositionInvariant(state_machine.inventory.no, adds.no)

C6_Witness ==
    /\ last.op = "add"
    /\ adds.yes = <<<<One, Cents(40)>>, <<One, Cents(60)>>>>
    /\ avg_cost(state_machine.inventory.yes) = Cents(50)
    /\ last.pre.inventory.no.quantity = Zero
    /\ adds.no = <<>>

\* C7: locked_profit is (1.0 - yes.avg_cost - no.avg_cost) x
\* min(yes.quantity, no.quantity), computed from the current positions, and
\* is exactly 0 whenever either side's quantity is 0.
C7_LockedProfit ==
    LET inv == state_machine.inventory
    IN  /\ locked_profit(inv) =
               RMul(RSub(RSub(One, avg_cost(inv.yes)), avg_cost(inv.no)),
                    RMin(inv.yes.quantity, inv.no.quantity))
        /\ (inv.yes.quantity = Zero \/ inv.no.quantity = Zero) =>
               locked_profit(inv) = Zero

C7_Witness ==
    LET inv == state_machine.inventory
    IN  /\ inv.yes.quantity = Rat(5, 2)
        /\ inv.no.quantity = One
        /\ avg_cost(inv.yes) = Cents(40)
        /\ avg_cost(inv.no) = Cents(40)
        /\ locked_profit(inv) = Cents(20)

\* C11: emergency_exit always reaches its reset step: whether
\* cancel_all_orders returns or raises, and whatever the phase at entry, it
\* ends in NEUTRAL with a wiped ledger, raises nothing, and returns a summary
\* with initial_state the phase at entry, final_state NEUTRAL and
\* orders_cancelled the gateway's count (0 if the cancel step failed).
C11_EmergencyExitResets ==
    last.op = "emergency_exit" =>
        /\ ~last.raised
        /\ state_machine.state = "NEUTRAL"
        /\ state_machine.inventory = Inventory
        /\ last.ret[1].initial_state = last.pre.state
        /\ last.ret[1].final_state = "NEUTRAL"
        /\ last.ret[1].orders_cancelled =
               IF last.arg[1].raised THEN 0 ELSE last.arg[1].count

C11_Witness ==
    /\ last.op = "emergency_exit"
    /\ last.arg[1].raised
    /\ last.pre.state = "LEGGED_YES"
    /\ last.pre.inventory.yes.quantity # Zero
    /\ state_machine.state = "NEUTRAL"
    /\ state_machine.inventory = Inventory

(***************************************************************************)
(* Properties of the running bot.                                          *)
(***************************************************************************)
\* C8: in every reachable state, for each side at most one order placed by
\* the engine is live (OPEN or PARTIALLY_FILLED) at the gateway, with either
\* gateway, whatever fills arrive and whether or not a cancel_order fails.
C8_OneLiveOrderPerSide ==
    \A side \in OrderSide : Cardinality(get_open_orders(orders, side)) <= 1

\* C9: ticks and fill callbacks are serialized: no fill callback changes the
\* ledger, the phase or the active-order tracker while a tick is suspended
\* at one of its gateway awaits.
C9_FillsSerializedWithTicks ==
    [][(\E id \in 1..Len(orders) : \E fp \in FillPrices(id) :
            PollForFills(id, fp) \/ SimulateFill(id, fp))
       => tick.pc = "idle"]_vars

\* C10: once a tick has triggered an emergency exit, no later tick begins
\* until that exit's force_neutral has run: a tick never begins while an
\* emergency exit is in progress.
C10_NoTickDuringEmergencyExit ==
    [][(\E dt \in ElapsedInputs : TickStart(dt))
       => \A k \in 1..Len(tasks) : tasks[k].kind # "exit"]_vars

\* order id is reported filled to the engine in this step: a resting order
\* fills, or the paper gateway books a market buy (the live gateway passes on
\* no fill of quantity zero)
FillStep(id) ==
    /\ id \in 1..Len(orders')
    /\ orders'[id].status = "FILLED"
    /\ id > Len(orders) \/ orders[id].status # "FILLED"
    /\ reports_fill(orders'[id])

\* C12: for every fill reported to the engine, on_fill is applied, the
\* tracker slot of the filled side is cleared, and record_pnl is called once,
\* with locked_profit x filled quantity, exactly when on_fill returns LOCKED;
\* otherwise the risk counters are unchanged.
C12_FillHandling ==
    [][\A id \in 1..MaxOrders :
          FillStep(id) =>
              \E fp \in {orders'[id].price} \cup FillPriceInputs :
                  LET o == orders'[id]
                      r == on_fill(state_machine, o.side, fp, o.size)
                      profit == RMul(locked_profit(r.sm.inventory), o.size)
                  IN  /\ ~r.raised
                      /\ state_machine' = r.sm
                      /\ active_orders' =
                             [active_orders EXCEPT ![o.side] = NoOrder]
                      /\ IF r.ret = "LOCKED"
                         THEN /\ risk_limits' = record_pnl(risk_limits, profit)
                              /\ risk_limits'.daily_trade_count =
                                     risk_limits.daily_trade_count + 1
                         ELSE risk_limits' = risk_limits]_vars

C12_Witness ==
    /\ state_machine.state = "LOCKED"
    /\ risk_limits.daily_trade_count = 1
    /\ \E id \in 1..Len(orders) : orders[id].status = "FILLED"
    /\ \E side \in OrderSide : active_orders[side] # NoOrder

\* daily_pnl as one number
PnlValue(rl) == RAdd(<<rl.daily_pnl.whole, 1>>, rl.daily_pnl.frac)

\* C13: after any sequence of record_pnl and reset_daily calls, can_trade
\* disallows trading if and only if daily_pnl < -max_daily_loss or
\* daily_trade_count >= max_daily_trades; a daily_pnl of exactly
\* -max_daily_loss and a count one below the maximum still allow trading.
C13_CanTrade ==
    last.op = "can_trade" =>
        (last.ret[1] = FALSE <=>
            \/ RLt(PnlValue(risk_limits), <<-100, 1>>)
            \/ risk_limits.daily_trade_count >= 100)

C13_Witness ==
    /\ last.op = "can_trade"
    /\ last.ret[1] = TRUE
    /\ PnlValue(risk_limits) = <<-100, 1>>
    /\ risk_limits.daily_trade_count = 99

\* C14: during an engine run daily_pnl and daily_trade_count change only
\* when a fill is recorded (record_pnl: the count goes up by one); no tick,
\* emergency exit or force_neutral resets or alters them, so the trade count
\* never decreases.
C14_RiskCountersFrame ==
    [][/\ risk_limits'.daily_trade_count >= risk_limits.daily_trade_count
       /\ risk_limits' # risk_limits =>
              /\ \E id \in 1..MaxOrders : FillStep(id)
              /\ risk_limits'.daily_trade_count =
                     risk_limits.daily_trade_count + 1]_vars

C14_Witness ==
    /\ risk_limits.daily_trade_count = 1
    /\ state_machine.state = "LEGGED_NO"
    /\ run = "running"

\* C15: every price the engine passes to place_limit_buy lies in
\* [0.01, 0.99]; when validate_price rejects a price, _place_bid places no
\* order and leaves that side's resting order and tracker slot untouched.
C15_BidPriceValidated ==
    /\ tick.pc = "place_limit_buy" =>
           RLe(<<1, 100>>, tick.price) /\ RLe(tick.price, <<99, 100>>)
    /\ (/\ last.op = "_place_bid"
        /\ RLt(last.arg[2], <<1, 100>>) \/ RLt(<<99, 100>>, last.arg[2]))
       => /\ tick.pc = "idle"
          /\ orders = last.pre.orders
          /\ active_orders = last.pre.active_orders

C15_Witness ==
    /\ last.op = "_place_bid"
    /\ last.arg[2] = One
    /\ tick.pc = "idle"
    /\ active_orders[last.arg[1]] # NoOrder
    /\ orders[active_orders[last.arg[1]]].status = "OPEN"

\* C16: a gateway call that fails during a tick (place_limit_buy or
\* market_buy failing, cancel_order reporting failure) does not halt the run
\* loop: whatever a gateway call awaited by a tick returns, run() goes on
\* ticking.
C16_GatewayFailureKeepsRunning ==
    [][tick.pc \in AwaitPcs => run' = "running"]_vars

\* C17: whenever run() stops, by cancellation or by an exception escaping a
\* tick, cancel_all_orders is invoked after the last tick and before run()
\* returns (run() returns as the sweep's last cancel_order returns, or with
\* no order left active in the gateway's book), and once run() has left its
\* loop no further tick is executed.
C17_FinalSweep ==
    [][/\ (run # "stopped" /\ run' = "stopped") =>
              \/ \E k \in 1..Len(tasks) :
                     tasks[k].kind = "sweep" /\ tasks' = Remove(tasks, k)
              \/ \A id \in 1..Len(orders') : ~is_active(orders'[id])
       /\ run # "running" => (run' # "running" /\ tick'.pc = "idle"
                               /\ now' = now)]_vars

C17_Witness ==
    /\ run = "stopped"
    /\ gateway = "live"
    /\ state_machine.state = "NEUTRAL"
    /\ \E id \in 1..Len(orders) : is_active(orders[id])

\* a tick's position-timeout check triggers in this step: the gamma stop did
\* not, and an emergency exit is created for a legged phase whose recorded
\* start instant is more than max_position_age_seconds old
TimeoutTriggers ==
    /\ run = "running"
    /\ tick.pc = "idle"
    /\ Len(tasks') = Len(tasks) + 1
    /\ tasks'[Len(tasks')].pc = "created"
    /\ ~(/\ expiry_timestamp # NoTime
         /\ expiry_timestamp - now' < GAMMA_STOP_MINUTES * 60)
    /\ state_machine.state \in {"LEGGED_YES", "LEGGED_NO"}
    /\ legged_at # NoTime
    /\ now' - legged_at > MAX_POSITION_AGE_SECONDS

\* C18: a legged position is never timed out early: the position timeout
\* triggers only when more than max_position_age_seconds have elapsed since
\* the phase most recently became legged, so the start instant recorded for
\* an earlier legged episode is never used for a later one.
C18_NoEarlyTimeout ==
    [][TimeoutTriggers => now' - legged_since > MAX_POSITION_AGE_SECONDS]_vars

(***************************************************************************)
(* Properties of the safety checks, under SpecSafety.                      *)
(***************************************************************************)

\* C19: check_stop_loss(current_price, cost_basis) returns true if and only
\* if cost_basis > 0 and (cost_basis - current_price) / cost_basis is
\* strictly above the stop-loss threshold 0.15; it never triggers when
\* cost_basis <= 0, and it triggers for cost basis 0.60 and price 0.40.
C19_StopLoss ==
    last.op = "check_stop_loss" =>
        LET current_price == last.arg[1]
            cost_basis == last.arg[2]
        IN  /\ last.ret[1] <=>
                   /\ RLt(Zero, cost_basis)
                   /\ RLt(Cents(15),
                          RDiv(RSub(cost_basis, current_price), cost_basis))
            /\ ~RLt(Zero, cost_basis) => ~last.ret[1]
            /\ (cost_basis = Cents(60) /\ current_price = Cents(40))
                   => last.ret[1]

\* the check has triggered for cost basis 0.60 and price 0.40
C19_Witness ==
    /\ last.op = "check_stop_loss"
    /\ last.arg = <<Cents(40), Cents(60)>>
    /\ last.ret = <<TRUE>>

\* C20: check_gamma_stop(seconds_to_expiry) returns true if and only if
\* seconds_to_expiry is strictly below gamma_stop_minutes x 60 = 120: at
\* exactly 120 s it does not trigger, a negative remaining time triggers,
\* and 90 s triggers.
C20_GammaStop ==
    last.op = "check_gamma_stop" =>
        LET seconds_to_expiry == last.arg[1]
        IN  /\ last.ret[1] <=> seconds_to_expiry < 2 * 60
            /\ seconds_to_expiry = 2 * 60 => ~last.ret[1]
            /\ seconds_to_expiry < 0 => last.ret[1]
            /\ seconds_to_expiry = 90 => last.ret[1]

\* the check has triggered with 90 s left
C20_Witness ==
    /\ last.op = "check_gamma_stop"
    /\ last.arg = <<90>>
    /\ last.ret = <<TRUE>>

(***************************************************************************)
(* Properties of the pricing functions, under SpecPricing.                 *)
(***************************************************************************)

\* C21: the binary fair-value function fails with the invalid-volatility
\* error for every call whose volatility is <= 0, whatever the spot, the
\* strike and the time to expiry.
C21_InvalidVolatility ==
    (last.op = "black_scholes_binary" /\ RLe(last.arg[4], Zero))
        => last.raised

\* C22: for time to expiry <= 0 and volatility > 0 the binary fair-value
\* function returns exactly 1.0 when spot > strike and exactly 0.0 otherwise
\* (spot = strike gives 0.0), without evaluating the closed form.
C22_AtExpiry ==
    (/\ last.op = "black_scholes_binary"
     /\ RLe(last.arg[3], Zero)
     /\ RLt(Zero, last.arg[4]))
        => /\ ~last.raised
           /\ last.ret[1] = FALSE
           /\ last.ret[2] =
                  <<IF RLt(last.arg[2], last.arg[1]) THEN One ELSE Zero>>

\* at expiry, with spot equal to strike, the function has returned 0.0
C22_Witness ==
    /\ last.op = "black_scholes_binary"
    /\ last.arg = <<Rat(100000, 1), Rat(100000, 1), Zero, Rat(3, 5)>>
    /\ last.ret = <<FALSE, <<Zero>>>>
    /\ ~last.raised

\* C23: get_skewed_bid returns a price in [0.01, 0.99] that equals
\* fair_value - spread - inventory x risk_factor when that value lies in the
\* range and the nearer bound otherwise; for risk_factor >= 0 the result
\* never increases when inventory increases.
C23_SkewedBid ==
    last.op = "get_skewed_bid" =>
        LET fair_value == last.arg[1]
            inventory == last.arg[2]
            spread == last.arg[3]
            risk_factor == last.arg[4]
            raw == RSub(RSub(fair_value, spread),
                        RMul(inventory, risk_factor))
            bid == last.ret[1]
        IN  /\ RLe(Cents(1), bid) /\ RLe(bid, Cents(99))
            /\ (RLe(Cents(1), raw) /\ RLe(raw, Cents(99))) => bid = raw
            /\ RLt(raw, Cents(1)) => bid = Cents(1)
            /\ RLt(Cents(99), raw) => bid = Cents(99)
            /\ (/\ last.pre.op = "get_skewed_bid"
                /\ last.pre.arg[1] = fair_value
                /\ last.pre.arg[3] = spread
                /\ last.pre.arg[4] = risk_factor
                /\ RLe(Zero, risk_factor)
                /\ RLe(last.pre.arg[2], inventory))
                   => RLe(bid, last.pre.ret[1])

\* two calls that differ only in inventory, 0 and then 50 at risk factor
\* 0.01: the bid went from 0.48 down to the lower bound
C23_Witness ==
    /\ last.op = "get_skewed_bid"
    /\ last.pre.op = "get_skewed_bid"
    /\ last.pre.arg = <<Cents(50), Zero, Cents(2), Cents(1)>>
    /\ last.pre.ret = <<Cents(48)>>
    /\ last.arg = <<Cents(50), Rat(50, 1), Cents(2), Cents(1)>>
    /\ last.ret = <<Cents(1)>>

\* C24: for every cost_basis in [0.01, 0.99] the hedge price p the engine
\* computes preserves the minimum profit target:
\* cost_basis + p <= 1.00 - min_profit.
C24_HedgePreservesMinProfit ==
    (/\ last.op = "_calculate_hedge_price"
     /\ RLe(Cents(1), last.arg[1])
     /\ RLe(last.arg[1], Cents(99)))
        => RLe(RAdd(last.arg[1], last.ret[1]), RSub(One, MIN_PROFIT))

(***************************************************************************)
(* Properties of the gateways, under SpecGateway.                          *)
(***************************************************************************)
Terminal == {"FILLED", "CANCELLED", "REJECTED"}

\* C25: cancel_order(id) returns true and marks the order CANCELLED only for
\* a known order that is still live; for an unknown id or an order already
\* FILLED, CANCELLED or REJECTED it returns false and leaves every order's
\* status unchanged, so a FILLED order never becomes CANCELLED.
C25_CancelOnlyLiveOrders ==
    last.op = "cancel_order" =>
        LET id == last.arg[1]
            live == id \in 1..Len(last.pre) /\ is_active(last.pre[id])
        IN  /\ last.ret => live /\ orders[id].status = "CANCELLED"
            /\ ~live => ~last.ret /\ orders = last.pre
            /\ \A k \in 1..Len(last.pre) :
                   last.pre[k].status = "FILLED" => orders[k].status = "FILLED"

\* C26: market_buy(side, size) returns an order with status FILLED for the
\* whole size at its fill price, having delivered exactly one fill callback
\* (side, fill price, size); when the side's book holds no ask it fails
\* instead of filling.
C26_MarketBuyFills ==
    last.op = "market_buy" =>
        LET side == last.arg[1]
            size == last.arg[2]
            ask == last.arg[3]
        IN  /\ ~last.raised =>
                   /\ last.ret.status = "FILLED"
                   /\ last.ret.size = size
                   /\ last.cb = <<Fill(Len(orders), side, last.ret.price,
                                       size)>>
            /\ ask = Zero => last.raised /\ orders = last.pre

\* C27: the fill callback is invoked for an order only in the call in which
\* that order newly becomes FILLED: never for an order that was already
\* FILLED and never for one that was not live, and once at most.
C27_FillDeliveredOnce ==
    /\ Len(last.cb) <= 1
    /\ \A c \in 1..Len(last.cb) :
           LET id == last.cb[c].id
           IN  /\ orders[id].status = "FILLED"
               /\ id \in 1..Len(last.pre) => is_active(last.pre[id])

(***************************************************************************)
(* Properties of the active-order tracker, under Spec.                     *)
(***************************************************************************)
\* run() is in its loop and no coroutine of the bot is in the middle of its
\* work: the tick is over and no emergency exit has been created or is
\* suspended
AtRest == run = "running" /\ tick.pc = "idle" /\ tasks = <<>>

\* C28: whenever a side's tracker slot holds an order id, that order is live
\* (OPEN or PARTIALLY_FILLED) at the gateway: the slot is cleared when its
\* order is filled or cancelled, also when the emergency exit's cancel-all
\* step cancels it.  Stated for the instants at which the bot is at rest.
C28_TrackedOrderIsLive ==
    AtRest =>
        \A side \in OrderSide :
            active_orders[side] # NoOrder
                => is_active(orders[active_orders[side]])

\* C29: every live resting order the engine has placed on a side is the one
\* recorded in that side's tracker slot: a fill notification for another
\* order never empties the slot of a live order, and a cancel that failed
\* never leaves a live order untracked.  Stated for the instants at which
\* the bot is at rest.
C29_LiveOrderIsTracked ==
    AtRest =>
        \A id \in 1..Len(orders) :
            is_active(orders[id]) => active_orders[orders[id].side] = id

(***************************************************************************)
(* Properties of the tick's guards, under Spec.                            *)
(***************************************************************************)
\* one of the three safety checks triggers for a tick that begins at time t
SafetyTriggers(t) ==
    LET st == state_machine.state
        inv == state_machine.inventory
        fv == calculate_fair_values
    IN  \/ /\ expiry_timestamp # NoTime
           /\ expiry_timestamp - t < GAMMA_STOP_MINUTES * 60
        \/ /\ st \in {"LEGGED_YES", "LEGGED_NO"}
           /\ legged_at # NoTime
           /\ t - legged_at > MAX_POSITION_AGE_SECONDS
        \/ st = "LEGGED_YES" /\ check_stop_loss(fv.YES, avg_cost(inv.yes))
        \/ st = "LEGGED_NO" /\ check_stop_loss(fv.NO, avg_cost(inv.no))

\* the tick has issued no gateway call and run no phase handler: no order
\* was placed or cancelled, the tick is over, and phase, ledger and tracker
\* are as they were
NoPhaseHandler ==
    /\ tick' = IdleTick
    /\ orders' = orders
    /\ active_orders' = active_orders
    /\ state_machine' = state_machine
    /\ run' = run

\* C30: a tick on which a safety check triggers (gamma stop, position
\* timeout, stop loss) starts the emergency exit exactly once, and a tick on
\* which the risk gate denies trading starts none; in both cases the tick
\* runs no phase handler: it issues no gateway call of its own and does not
\* change the tracker.
C30_GuardedTickSkips ==
    [][\A dt \in ElapsedInputs :
          TickStart(dt) =>
              /\ SafetyTriggers(now + dt) =>
                     /\ tasks' = Append(tasks, Task("exit", "created",
                                                    NoOrder, 0))
                     /\ NoPhaseHandler
              /\ (~SafetyTriggers(now + dt) /\ ~can_trade(risk_limits)) =>
                     /\ tasks' = tasks
                     /\ NoPhaseHandler]_vars

\* a tick has just started one emergency exit and has ended: the exit has
\* not begun to run, nothing of the tick is pending
C30_Witness ==
    /\ run = "running"
    /\ tick = IdleTick
    /\ Len(tasks) = 1
    /\ tasks[1] = Task("exit", "created", NoOrder, 0)
    /\ SafetyTriggers(now)

(***************************************************************************)
(* Properties of the phase handlers, under Spec.                           *)
(***************************************************************************)
\* the tick in progress read phase st, no fill callback has run since it
\* began and none of its gateway calls has failed
CleanTick(st) ==
    /\ journal.phase = st
    /\ ~journal.fills
    /\ ~journal.failed

\* place_limit_buy returns an order to the _place_bid of the tick
BidPlaced ==
    /\ tick.pc = "place_limit_buy"
    /\ Len(orders') = Len(orders) + 1
    /\ run' = "running"

HeldSide == IF journal.phase = "LEGGED_YES" THEN "YES" ELSE "NO"
HedgeSide == IF journal.phase = "LEGGED_YES" THEN "NO" ELSE "YES"

\* the most the hedge may cost: 1.00 - cost basis - min_profit, in
\* [0.01, 0.99]
HedgeLimit(cost_basis) ==
    LET raw == RSub(RSub(One, cost_basis), Cents(1))
    IN  IF RLt(raw, Cents(1)) THEN Cents(1)
        ELSE IF RLt(Cents(99), raw) THEN Cents(99)
        ELSE raw

C33_VaultTick ==
    [][/\ (journal.phase = "LOCKED" /\ tick' # tick /\ run' = run) =>
              /\ Len(orders') = Len(orders)
              /\ state_machine' = state_machine
              /\ tick'.pc \in {"cancel_all", "idle"}
              /\ tick.pc = "vault" =>
                     LET live == {i \in 1..Len(orders) : is_active(orders[i])}
                     IN  IF gateway = "paper" \/ live = {}
                         THEN /\ tick'.pc = "idle"
                              /\ \A i \in live :
                                     orders'[i].status = "CANCELLED"
                         ELSE /\ tick'.pc = "cancel_all"
                              /\ tick'.i \in live
              /\ tick'.pc = "idle" =>
                     active_orders' = [YES |-> NoOrder, NO |-> NoOrder]
       /\ (state_machine.state = "LOCKED" /\ tick' # tick /\ run' = run) =>
              state_machine'.state = "LOCKED"
       /\ (state_machine.state = "LOCKED"
              /\ state_machine'.state # "LOCKED") =>
              /\ state_machine'.state = "NEUTRAL"
              /\ state_machine'.inventory.yes.quantity = Zero
              /\ state_machine'.inventory.no.quantity = Zero
              /\ tasks' # tasks \/ run' # run]_vars

C33_Witness ==
    /\ gateway = "live"
    /\ run = "running"
    /\ tasks = <<>>
    /\ tick.pc = "idle"
    /\ state_machine.state = "LOCKED"
    /\ active_orders = [YES |-> NoOrder, NO |-> NoOrder]
    /\ Len(orders) = 3
    /\ orders[3].price = Cents(50)
    /\ orders[3].status = "CANCELLED"

\* C34: every order the engine sends to the gateway, whether a resting limit
\* bid or a spread-crossing market buy, has a notional (price x size) no
\* greater than max_single_order_size; a limit bid placed without an explicit
\* size has notional min(position_size, max_single_order_size).
C34_NotionalCapped ==
    [][Len(orders') > Len(orders) =>
           LET o == orders'[Len(orders')]
               notional == RMul(o.price, o.size)
           IN  /\ RLe(notional, MAX_SINGLE_ORDER_SIZE)
               /\ tick.pc = "place_limit_buy" =>
                      notional = RMin(position_size, MAX_SINGLE_ORDER_SIZE)]_vars

\* the resting bids alone do keep to the limit
C34_BidsCapped ==
    [][(Len(orders') > Len(orders) /\ tick.pc = "place_limit_buy") =>
           LET o == orders'[Len(orders')]
           IN  RMul(o.price, o.size) =
                   RMin(position_size, MAX_SINGLE_ORDER_SIZE)]_vars

\* C35: when a legged tick crosses the spread, the price at which the hedge
\* is actually bought (the fill price reported for that market buy) does not
\* exceed the hedge price computed in that tick, with either gateway and even
\* if the order book changes between the engine's book query and the
\* execution of the buy.  The paper gateway reports the fill with the order;
\* the live gateway's buy is a limit order at the ask it reads itself, made
\* to fill at once at that price.
C35_HedgeBoughtWithinLimit ==
    [][(/\ journal.phase \in {"LEGGED_YES", "LEGGED_NO"}
        /\ tick.pc \in {"get_order_book", "mkt_place_limit_buy"}
        /\ tick' # tick
        /\ Len(orders') > Len(orders)) =>
           RLe(orders'[Len(orders')].price, journal.hedge)]_vars

C37_TickWithoutPrice ==
    [][\A dt \in ElapsedInputs :
           (/\ TickStart(dt)
            /\ btc_price = "None"
            /\ run_safety_checks(now + dt).ok
            /\ can_trade(risk_limits)) =>
               /\ run' = "running"
               /\ tick' = Dispatch(state_machine.state)
               /\ state_machine' = state_machine]_vars

\* C38: in every state the engine can reach (the state machine being mutated
\* only by on_fill with qty > 0 and by force_neutral, in any interleaving of
\* ticks, fills and emergency exits), the phase agrees with the inventory's
\* shape: NEUTRAL iff both quantities are 0, LEGGED_YES iff yes > 0 and
\* no = 0, LEGGED_NO iff no > 0 and yes = 0, LOCKED iff both quantities
\* are > 0.
C38_PhaseMatchesInventory ==
    LET yes == state_machine.inventory.yes.quantity
        no == state_machine.inventory.no.quantity
    IN  /\ state_machine.state = "NEUTRAL" <=> (yes = Zero /\ no = Zero)
        /\ state_machine.state = "LEGGED_YES" <=>
               (RLt(Zero, yes) /\ no = Zero)
        /\ state_machine.state = "LEGGED_NO" <=>
               (RLt(Zero, no) /\ yes = Zero)
        /\ state_machine.state = "LOCKED" <=>
               (RLt(Zero, yes) /\ RLt(Zero, no))

\* a leg bought after an emergency exit wiped the first one
C38_Witness ==
    /\ state_machine.state = "LEGGED_NO"
    /\ Len(orders) >= 2
    /\ orders[1].side = "YES" /\ orders[1].status = "FILLED"
    /\ orders[2].side = "NO" /\ orders[2].status = "FILLED"
    /\ state_machine.inventory.yes.quantity = Zero
    /\ state_machine.inventory.no.quantity = orders[2].size

\* the gamma stop triggers at time t
GammaStop(t) ==
    /\ expiry_timestamp # NoTime
    /\ expiry_timestamp - t < GAMMA_STOP_MINUTES * 60

\* C39: with an expiry set and a clock that only moves forward, once a tick
\* observes seconds_to_expiry < gamma_stop_minutes x 60 every later tick also
\* triggers the gamma stop, so from that tick on the engine places no limit
\* bid and no market buy, and each such tick starts an emergency exit that
\* cancels the resting orders.
C39_GammaStopLatches ==
    [][/\ GammaStop(now) => GammaStop(now')
       \* a tick in the gamma window starts an exit and nothing else
       /\ \A dt \in ElapsedInputs :
              (TickStart(dt) /\ GammaStop(now + dt)) =>
                  /\ tasks' = Append(tasks, Task("exit", "created",
                                                 NoOrder, 0))
                  /\ NoPhaseHandler
       \* no order is sent once a tick has seen the gamma window
       /\ GammaStop(now) => Len(orders') = Len(orders)
       \* the exit cancels what rests at the gateway
       /\ \A k \in 1..Len(tasks) :
              (GammaStop(now) /\ TaskStart(k)) =>
                  LET live == {i \in 1..Len(orders) : is_active(orders[i])}
                  IN  IF gateway = "paper" \/ live = {}
                      THEN \A i \in 1..Len(orders) :
                               ~is_active(orders'[i])
                      ELSE /\ tasks'[Len(tasks')].pc = "cancel_order"
                           /\ tasks'[Len(tasks')].i \in live]_vars

\* two ticks in the gamma window, with a position that triggers neither the
\* stop loss nor the timeout: the exit of the first tick is cancelling the
\* resting bid, the exit of the second is about to start
C39_Witness ==
    /\ GammaStop(now)
    /\ run = "running"
    /\ tick.pc = "idle"
    /\ state_machine.state = "LEGGED_YES"
    /\ avg_cost(state_machine.inventory.yes) = Cents(48)
    /\ Len(tasks) = 2
    /\ tasks[1].kind = "exit" /\ tasks[1].pc = "cancel_order"
    /\ tasks[2] = Task("exit", "created", NoOrder, 0)

\* the best ask of a side's book while the book does not move
BestAsk(side) ==
    IF gateway = "paper" THEN simulated_best_ask[side] ELSE Cents(50)

\* legged, and the other side is offered at or below the hedge price
HedgeWithinReach ==
    LET inv == state_machine.inventory
    IN  \/ /\ state_machine.state = "LEGGED_YES"
           /\ RLe(BestAsk("NO"), HedgeLimit(avg_cost(inv.yes)))
        \/ /\ state_machine.state = "LEGGED_NO"
           /\ RLe(BestAsk("YES"), HedgeLimit(avg_cost(inv.no)))

\* the run loop is going, no emergency exit is pending and the risk gate is
\* open
Undisturbed ==
    /\ run = "running"
    /\ tasks = <<>>
    /\ can_trade(risk_limits)

\* the model has no order left for another tick, and no market buy is waiting
\* for its fill
OrdersExhausted ==
    /\ tick.pc = "idle"
    /\ Len(orders) + MaxPlaced(state_machine.state) > MaxWorkingOrders
    /\ \A id \in 1..Len(orders) :
           is_active(orders[id]) =>
               id \in {active_orders.YES, active_orders.NO}

\* C40: liveness of the hedge: from LEGGED_YES (resp. LEGGED_NO), if no
\* safety check triggers, the risk gate allows trading, the opposite side's
\* best ask stays at or below the hedge price and the gateway fills and
\* reports market buys, then under fair scheduling of ticks and fill delivery
\* the engine eventually reaches LOCKED; with the paper gateway it is LOCKED
\* by the end of the first such tick.
C40_HedgeCompletes ==
    /\ (HedgeWithinReach /\ Undisturbed) ~>
           \/ state_machine.state = "LOCKED"
           \/ ~Undisturbed
           \/ /\ state_machine.state \in {"LEGGED_YES", "LEGGED_NO"}
              /\ ~HedgeWithinReach
           \/ OrdersExhausted
    /\ [][(/\ gateway = "paper"
            /\ HedgeWithinReach
            /\ journal.phase = state_machine.state
            /\ tick' # tick
            /\ tick'.pc = "idle"
            /\ run' = run) =>
               state_machine'.state = "LOCKED"]_vars

\* a live run that locked through the fill of its market buy, the resting bid
\* of the same side still unfilled
C40_Witness ==
    /\ gateway = "live"
    /\ run = "running"
    /\ state_machine.state = "LOCKED"
    /\ Len(orders) = 3
    /\ orders[1].side = "YES" /\ orders[1].status # "FILLED"
    /\ orders[2].side = "NO" /\ orders[2].status = "FILLED"
    /\ orders[3] = Order("YES", Cents(50),
                         state_machine.inventory.no.quantity, "FILLED")

====
